---- MODULE Spec2Model ----
(***************************************************************************)
(* A model of the analysis core of backend/analyzer.py and backend/main.py *)
(* of Class-Visualisation: the per-file syntax-tree visitor CodeAnalyzer,  *)
(* and the run of main() from the configuration checks to the written     *)
(* output.  Python strings are TLA+ strings, Python dicts are sequences of *)
(* [k, v] pairs in insertion order, Python sets are sets.                  *)
(***************************************************************************)
EXTENDS Naturals, Sequences, FiniteSets, TLC

VARIABLES
    tree, az, walked,                    \* the walk of one file: ast.parse's tree, the CodeAnalyzer,
                                         \* and (history) the nodes visited so far
    fs, dir_order, argv,                 \* the environment of a run: files, os.walk's order, arguments
    pc, scan_root, focus_root,           \* main(): position and the two normalized roots
    py_files, file_module_info, module_to_file,
    files_data, symbol_to_file, focus_files,
    cursor, output, out_file, first_out, error,
    walks                                \* analyze_file calls in progress side by side

walk_vars == <<tree, az, walked>>
main_vars == <<walks, fs, dir_order, argv, pc, scan_root, focus_root, py_files,
               file_module_info, module_to_file, files_data, symbol_to_file,
               focus_files, cursor, output, out_file, first_out, error>>
vars == <<walks, tree, az, walked, fs, dir_order, argv, pc, scan_root, focus_root, py_files,
          file_module_info, module_to_file, files_data, symbol_to_file,
          focus_files, cursor, output, out_file, first_out, error>>

----------------------------------------------------------------------------
(* Bounds of the model *)

\* statements spread over the methods of the generated class (SpecWalk)
MaxStmts == 3
\* decorators on a generated function (SpecWalk)
MaxDecorators == 2
\* files in the scanned tree (Spec)
MaxFiles == 3
\* analyze_file calls in progress at once (SpecFiles)
MaxWalks == 2

\* definitions nested in one another in a generated tree
MaxNest == 3

----------------------------------------------------------------------------
(* Python str *)

RECURSIVE Find(_, _, _)
\* str.find(pat, i-1) + 1: the first position >= i where pat occurs, 0 when none
Find(s, pat, i) ==
    IF i + Len(pat) > Len(s) + 1 THEN 0
    ELSE IF SubSeq(s, i, i + Len(pat) - 1) = pat THEN i
    ELSE Find(s, pat, i + 1)

RECURSIVE FindLast(_, _, _)
\* str.rfind(pat) + 1, searching down from position i
FindLast(s, pat, i) ==
    IF i = 0 THEN 0
    ELSE IF i + Len(pat) <= Len(s) + 1 /\ SubSeq(s, i, i + Len(pat) - 1) = pat THEN i
    ELSE FindLast(s, pat, i - 1)

Contains(s, pat) == Find(s, pat, 1) # 0

StartsWith(s, p) == Len(p) <= Len(s) /\ SubSeq(s, 1, Len(p)) = p

EndsWith(s, p) == Len(p) <= Len(s) /\ SubSeq(s, Len(s) - Len(p) + 1, Len(s)) = p

RECURSIVE Replace(_, _, _)
\* str.replace(old, new): every non-overlapping occurrence, left to right
Replace(s, old, new) ==
    LET i == Find(s, old, 1) IN
    IF i = 0 THEN s
    ELSE SubSeq(s, 1, i - 1) \o new \o Replace(SubSeq(s, i + Len(old), Len(s)), old, new)

RECURSIVE Split(_, _)
\* str.split(sep)
Split(s, sep) ==
    LET i == Find(s, sep, 1) IN
    IF i = 0 THEN <<s>>
    ELSE <<SubSeq(s, 1, i - 1)>> \o Split(SubSeq(s, i + Len(sep), Len(s)), sep)

RECURSIVE Join(_, _)
\* sep.join(parts)
Join(parts, sep) ==
    IF parts = <<>> THEN ""
    ELSE IF Len(parts) = 1 THEN parts[1]
    ELSE parts[1] \o sep \o Join(Tail(parts), sep)

\* str.split(sep, 1): at most one split, at the first sep
Split1(s, sep) ==
    LET i == Find(s, sep, 1) IN
    IF i = 0 THEN <<s>>
    ELSE <<SubSeq(s, 1, i - 1), SubSeq(s, i + Len(sep), Len(s))>>

\* str.rsplit(sep, 1): at most one split, at the last sep
RSplit1(s, sep) ==
    LET i == FindLast(s, sep, Len(s)) IN
    IF i = 0 THEN <<s>>
    ELSE <<SubSeq(s, 1, i - 1), SubSeq(s, i + Len(sep), Len(s))>>

UpperChars == "ABCDEFGHIJKLMNOPQRSTUVWXYZ"
LowerChars == "abcdefghijklmnopqrstuvwxyz"

RECURSIVE Lower(_)
\* str.lower()
Lower(s) ==
    IF s = "" THEN ""
    ELSE LET c == SubSeq(s, 1, 1)
             i == Find(UpperChars, c, 1)
         IN (IF i = 0 THEN c ELSE SubSeq(LowerChars, i, i)) \o Lower(SubSeq(s, 2, Len(s)))

\* the characters of the model's strings in code point order
CodePoints == "./0123456789ABCDEFGHIJKLMNOPQRSTUVWXYZ_abcdefghijklmnopqrstuvwxyz"

Ord(c) == Find(CodePoints, c, 1)

RECURSIVE StrLess(_, _)
\* a < b on str: lexicographic by code point
StrLess(a, b) ==
    IF b = "" THEN FALSE
    ELSE IF a = "" THEN TRUE
    ELSE LET ca == Ord(SubSeq(a, 1, 1))
             cb == Ord(SubSeq(b, 1, 1))
         IN IF ca # cb THEN ca < cb
            ELSE StrLess(SubSeq(a, 2, Len(a)), SubSeq(b, 2, Len(b)))

RECURSIVE Sorted(_)
\* sorted(set of str)
Sorted(S) ==
    IF S = {} THEN <<>>
    ELSE LET m == CHOOSE x \in S : \A y \in S \ {x} : StrLess(x, y)
         IN <<m>> \o Sorted(S \ {m})

----------------------------------------------------------------------------
(* Python dict, in insertion order: a sequence of [k, v] *)

DictHas(d, k) == \E i \in 1..Len(d) : d[i].k = k

DictGet(d, k) == d[CHOOSE i \in 1..Len(d) : d[i].k = k].v

\* d.get(k, default)
DictGetOr(d, k, default) == IF DictHas(d, k) THEN DictGet(d, k) ELSE default

\* d[k] = v: an existing key keeps its place
DictSet(d, k, v) ==
    IF DictHas(d, k)
    THEN [i \in 1..Len(d) |-> IF d[i].k = k THEN [k |-> k, v |-> v] ELSE d[i]]
    ELSE Append(d, [k |-> k, v |-> v])

DictKeys(d) == [i \in 1..Len(d) |-> d[i].k]

KeySet(d) == {d[i].k : i \in 1..Len(d)}

SeqSet(s) == {s[i] : i \in 1..Len(s)}

\* the orders in which a set may be iterated
Orders(S) == {s \in [1..Cardinality(S) -> S] : \A i, j \in 1..Cardinality(S) : s[i] = s[j] => i = j}

----------------------------------------------------------------------------
(* ast: the nodes the visitor meets.  NoName stands for None where the code *)
(* only tests a name for truth.                                             *)

NoName == ""

Module(body) == [kind |-> "Module", body |-> body]

ClassDef(name, lineno, end_lineno, bases, body, decorator_list) ==
    [kind |-> "ClassDef", name |-> name, lineno |-> lineno, end_lineno |-> end_lineno,
     bases |-> bases, body |-> body, decorator_list |-> decorator_list]

FunctionDef(name, lineno, end_lineno, args, body, decorator_list) ==
    [kind |-> "FunctionDef", name |-> name, lineno |-> lineno, end_lineno |-> end_lineno,
     args |-> args, body |-> body, decorator_list |-> decorator_list]

AsyncFunctionDef(name, lineno, end_lineno, args, body, decorator_list) ==
    [kind |-> "AsyncFunctionDef", name |-> name, lineno |-> lineno, end_lineno |-> end_lineno,
     args |-> args, body |-> body, decorator_list |-> decorator_list]

Assign(targets, value) == [kind |-> "Assign", targets |-> targets, value |-> value]

Expr(value) == [kind |-> "Expr", value |-> value]

Pass == [kind |-> "Pass"]

Constant == [kind |-> "Constant"]

Name(id) == [kind |-> "Name", id |-> id, ctx |-> "Load"]

NameStore(id) == [kind |-> "Name", id |-> id, ctx |-> "Store"]

Attribute(value, attr) == [kind |-> "Attribute", value |-> value, attr |-> attr]

Call(func, args) == [kind |-> "Call", func |-> func, args |-> args]

Subscript(value, slice) == [kind |-> "Subscript", value |-> value, slice |-> slice]

\* import name [as asname], ...; asname is NoName when there is none
Import(names) == [kind |-> "Import", names |-> names]

\* from module import name [as asname], ...
ImportFrom(module, names) == [kind |-> "ImportFrom", module |-> module, names |-> names]

alias(name, asname) == [name |-> name, asname |-> asname]

\* ast.iter_child_nodes: the children in the order of the node's _fields
Children(node) ==
    CASE node.kind = "Module" -> node.body
      [] node.kind = "ClassDef" -> node.bases \o node.body \o node.decorator_list
      [] node.kind \in {"FunctionDef", "AsyncFunctionDef"} -> node.body \o node.decorator_list
      [] node.kind = "Assign" -> node.targets \o <<node.value>>
      [] node.kind = "Expr" -> <<node.value>>
      [] node.kind = "Call" -> <<node.func>> \o node.args
      [] node.kind = "Attribute" -> <<node.value>>
      [] node.kind = "Subscript" -> <<node.value, node.slice>>
      [] OTHER -> <<>>

----------------------------------------------------------------------------
(* analyzer.py: CodeAnalyzer *)

API_DECORATOR_KEYWORDS ==
    {"route", "router", "get", "post", "put", "patch", "delete", "options",
     "head", "api", "api_view", "endpoint"}

\* CodeAnalyzer.__init__
NewAnalyzer ==
    [scopes |-> <<>>, definitions |-> <<>>, aliases |-> <<>>,
     instance_attr_types |-> <<>>, todo |-> <<>>]

\* mutant of _canonical_name: the alias table not consulted
_canonical_name_as_written(a, name) == name

_canonical_name(a, name) ==
    IF ~DictHas(a.aliases, name) THEN name
    ELSE LET info == DictGet(a.aliases, name) IN
         IF info.kind = "symbol" THEN info.symbol ELSE name

\* mutant of _canonical_attr_base: a module alias left as written
_canonical_attr_base_symbols_only(a, name) == _canonical_name(a, name)

_canonical_attr_base(a, name) ==
    IF ~DictHas(a.aliases, name) THEN name
    ELSE LET info == DictGet(a.aliases, name) IN
         IF info.kind = "symbol" THEN info.symbol
         ELSE IF info.kind = "module" THEN info.module
         ELSE name

RECURSIVE PeelCalls(_)
\* while isinstance(target, ast.Call): target = target.func
PeelCalls(target) == IF target.kind = "Call" THEN PeelCalls(target.func) ELSE target

RECURSIVE ChainNames(_)
\* the names list: every attr of the attribute chain, then the root Name's id
ChainNames(target) ==
    IF target.kind = "Attribute" THEN <<Lower(target.attr)>> \o ChainNames(target.value)
    ELSE IF target.kind = "Name" THEN <<Lower(target.id)>>
    ELSE <<>>

RECURSIVE ChainNamesAsWritten(_)
ChainNamesAsWritten(target) ==
    IF target.kind = "Attribute" THEN <<target.attr>> \o ChainNamesAsWritten(target.value)
    ELSE IF target.kind = "Name" THEN <<target.id>>
    ELSE <<>>

\* mutant of _is_api_endpoint: the names compared without .lower()
_is_api_endpoint_as_written(node) ==
    \E i \in 1..Len(node.decorator_list) :
        \E name \in SeqSet(ChainNamesAsWritten(PeelCalls(node.decorator_list[i]))) :
            name \in API_DECORATOR_KEYWORDS

_is_api_endpoint(node) ==
    \E i \in 1..Len(node.decorator_list) :
        \E name \in SeqSet(ChainNames(PeelCalls(node.decorator_list[i]))) :
            name \in API_DECORATOR_KEYWORDS

_extract_class_from_value(a, node) ==
    IF node.kind = "Call"
    THEN IF node.func.kind = "Name" THEN _canonical_name(a, node.func.id)
         ELSE IF node.func.kind = "Attribute" THEN node.func.attr
         ELSE NoName
    ELSE IF node.kind = "Name" THEN _canonical_name(a, node.id)
    ELSE NoName

RECURSIVE NearestClass(_, _)
\* for scope in reversed(self.scopes): the first one whose record is a class
NearestClass(a, i) ==
    IF i = 0 THEN NoName
    ELSE IF DictHas(a.definitions, a.scopes[i])
            /\ DictGet(a.definitions, a.scopes[i]).type = "class"
         THEN a.scopes[i]
         ELSE NearestClass(a, i - 1)

_get_current_class(a) == NearestClass(a, Len(a.scopes))

TopScope(a) == a.scopes[Len(a.scopes)]

\* self.definitions[self.scopes[-1]]['used_names'].add(name)
AddUsedName(a, name) ==
    LET rec == DictGet(a.definitions, TopScope(a)) IN
    [a EXCEPT !.definitions =
        DictSet(@, TopScope(a), [rec EXCEPT !.used_names = @ \cup {name}])]

\* self.definitions[self.scopes[-1]]['used_classes_methods'][base].add(attr)
AddUsedMethod(a, base, attr) ==
    LET rec == DictGet(a.definitions, TopScope(a))
        had == DictGetOr(rec.used_classes_methods, base, {})
    IN [a EXCEPT !.definitions =
           DictSet(@, TopScope(a),
                   [rec EXCEPT !.used_classes_methods = DictSet(@, base, had \cup {attr})])]

\* mutant of visit_ClassDef: the record made, the name not pushed
visit_ClassDef_without_push(a, node) ==
    [a EXCEPT
        !.definitions = DictSet(@, node.name,
            [type |-> "class", args |-> <<>>,
             start_line |-> node.lineno, end_line |-> node.end_lineno,
             used_names |-> {}, used_classes_methods |-> <<>>,
             is_api_endpoint |-> FALSE])]

visit_ClassDef(a, node) ==
    [a EXCEPT
        !.definitions = DictSet(@, node.name,
            [type |-> "class", args |-> <<>>,
             start_line |-> node.lineno, end_line |-> node.end_lineno,
             used_names |-> {}, used_classes_methods |-> <<>>,
             is_api_endpoint |-> FALSE]),
        !.scopes = Append(@, node.name)]

FullName(a, node) ==
    IF a.scopes # <<>> /\ DictGet(a.definitions, TopScope(a)).type = "class"
    THEN TopScope(a) \o "." \o node.name
    ELSE node.name

visit_FunctionDef(a, node) ==
    [a EXCEPT
        !.definitions = DictSet(@, FullName(a, node),
            [type |-> "function", args |-> node.args,
             start_line |-> node.lineno, end_line |-> node.end_lineno,
             used_names |-> {}, used_classes_methods |-> <<>>,
             is_api_endpoint |-> _is_api_endpoint(node)]),
        !.scopes = Append(@, FullName(a, node))]

IsSelfTarget(target) ==
    /\ target.kind = "Attribute"
    /\ target.value.kind = "Name"
    /\ target.value.id = "self"

RECURSIVE BindTargets(_, _, _)
\* the loop over node.targets of visit_Assign, from target i on
BindTargets(a, node, i) ==
    IF i > Len(node.targets) THEN a
    ELSE LET target == node.targets[i]
             assigned_class == _extract_class_from_value(a, node.value)
             current_class == _get_current_class(a)
         IN IF IsSelfTarget(target) /\ a.scopes # <<>>
               /\ assigned_class # NoName /\ current_class # NoName
            THEN BindTargets(
                    [a EXCEPT !.instance_attr_types =
                        DictSet(@, <<current_class, target.attr>>, assigned_class)],
                    node, i + 1)
            ELSE BindTargets(a, node, i + 1)

\* mutant of visit_Assign: a binding once made is never replaced
visit_Assign_keeping_first(a, node) ==
    [BindTargets(a, node, 1) EXCEPT !.instance_attr_types =
        [i \in 1..Len(@) |-> IF i <= Len(a.instance_attr_types)
                             THEN a.instance_attr_types[i] ELSE @[i]]]

visit_Assign(a, node) == BindTargets(a, node, 1)

RECURSIVE ImportNames(_, _, _)
\* the loop over node.names of visit_Import
ImportNames(a, node, i) ==
    IF i > Len(node.names) THEN a
    ELSE LET al == node.names[i] IN
         IF al.asname # NoName
         THEN ImportNames(
                 [a EXCEPT !.aliases =
                     DictSet(@, al.asname, [kind |-> "module", module |-> al.name])],
                 node, i + 1)
         ELSE ImportNames(a, node, i + 1)

\* mutant of visit_Import: a local name already in the alias table is kept
visit_Import_keeping_first(a, node) ==
    [ImportNames(a, node, 1) EXCEPT !.aliases =
        [i \in 1..Len(@) |-> IF i <= Len(a.aliases) THEN a.aliases[i] ELSE @[i]]]

visit_Import(a, node) == ImportNames(a, node, 1)

RECURSIVE ImportFromNames(_, _, _)
\* the loop over node.names of visit_ImportFrom
ImportFromNames(a, node, i) ==
    IF i > Len(node.names) THEN a
    ELSE LET al == node.names[i]
             alias_name == IF al.asname # NoName THEN al.asname ELSE al.name
         IN IF al.name = "*"
            THEN ImportFromNames(a, node, i + 1)
            ELSE ImportFromNames(
                    [a EXCEPT !.aliases =
                        DictSet(@, alias_name,
                                [kind |-> "symbol", symbol |-> al.name, module |-> node.module])],
                    node, i + 1)

visit_ImportFrom(a, node) == ImportFromNames(a, node, 1)

\* mutant of visit_Name: the name goes to the outermost open definition
visit_Name_in_outermost_scope(a, node) ==
    IF node.ctx = "Load" /\ a.scopes # <<>>
    THEN LET rec == DictGet(a.definitions, a.scopes[1]) IN
         [a EXCEPT !.definitions =
             DictSet(@, a.scopes[1],
                     [rec EXCEPT !.used_names = @ \cup {_canonical_name(a, node.id)}])]
    ELSE a

visit_Name(a, node) ==
    IF node.ctx = "Load" /\ a.scopes # <<>>
    THEN AddUsedName(a, _canonical_name(a, node.id))
    ELSE a

\* the class self.<attr> was bound to, for the node self.<attr>.<method>
BoundClass(a, node) ==
    IF /\ node.value.kind = "Attribute"
       /\ node.value.value.kind = "Name"
       /\ node.value.value.id = "self"
       /\ _get_current_class(a) # NoName
    THEN DictGetOr(a.instance_attr_types, <<_get_current_class(a), node.value.attr>>, NoName)
    ELSE NoName

\* mutant of visit_Attribute: the self.<attr>.<method> lookup left out
visit_Attribute_base_only(a, node) ==
    IF a.scopes = <<>> THEN a
    ELSE IF node.value.kind = "Name"
         THEN AddUsedMethod(a, _canonical_attr_base(a, node.value.id), node.attr)
         ELSE a

\* mutant of visit_Attribute: the base looked for under the calls around it
visit_Attribute_through_calls(a, node) ==
    IF a.scopes = <<>> THEN a
    ELSE IF BoundClass(a, node) # NoName
         THEN AddUsedMethod(a, BoundClass(a, node), node.attr)
         ELSE IF PeelCalls(node.value).kind = "Name"
              THEN AddUsedMethod(a, _canonical_attr_base(a, PeelCalls(node.value).id),
                                 node.attr)
              ELSE a

visit_Attribute(a, node) ==
    IF a.scopes = <<>> THEN a
    ELSE IF BoundClass(a, node) # NoName
         THEN AddUsedMethod(a, BoundClass(a, node), node.attr)
         ELSE IF node.value.kind = "Name"
              THEN AddUsedMethod(a, _canonical_attr_base(a, node.value.id), node.attr)
              ELSE a

\* NodeVisitor.visit: visit_<kind> when the class defines it, else generic_visit
Visit(a, node) ==
    CASE node.kind = "ClassDef" -> visit_ClassDef(a, node)
      [] node.kind \in {"FunctionDef", "AsyncFunctionDef"} -> visit_FunctionDef(a, node)
      [] node.kind = "Assign" -> visit_Assign(a, node)
      [] node.kind = "Import" -> visit_Import(a, node)
      [] node.kind = "ImportFrom" -> visit_ImportFrom(a, node)
      [] node.kind = "Name" -> visit_Name(a, node)
      [] node.kind = "Attribute" -> visit_Attribute(a, node)
      [] OTHER -> a

\* visit_Import, visit_ImportFrom and visit_Name do not call generic_visit
Descends(node) == node.kind \notin {"Import", "ImportFrom", "Name"}

OpensScope(node) == node.kind \in {"ClassDef", "FunctionDef", "AsyncFunctionDef"}

VisitItem(node) == [op |-> "visit", node |-> node]

PopItem == [op |-> "pop"]

\* One step of the recursive walk, the pending calls kept in todo: either the
\* visit of the next node (its visitor's own code, then its children queued by
\* generic_visit, then the scopes.pop() of a class or function), or that pop.
WalkStep(a) ==
    LET item == Head(a.todo)
        rest == Tail(a.todo)
    IN IF item.op = "pop"
       THEN [a EXCEPT !.scopes = SubSeq(@, 1, Len(@) - 1), !.todo = rest]
       ELSE LET node == item.node
                kids == IF Descends(node)
                        THEN [i \in 1..Len(Children(node)) |-> VisitItem(Children(node)[i])]
                        ELSE <<>>
                closing == IF OpensScope(node) THEN <<PopItem>> ELSE <<>>
            IN [Visit(a, node) EXCEPT !.todo = kids \o closing \o rest]

RECURSIVE RunWalk(_)
RunWalk(a) == IF a.todo = <<>> THEN a ELSE RunWalk(WalkStep(a))

\* mutant of StartWalk: the tables of the analyzer made last taken over, as if
\* they were attributes of the class and not of the instance
StartWalk_on_shared_tables(t) ==
    IF walks = <<>> THEN [NewAnalyzer EXCEPT !.todo = <<VisitItem(t)>>]
    ELSE [walks[Len(walks)].az EXCEPT !.scopes = <<>>, !.todo = <<VisitItem(t)>>]

\* analyzer = CodeAnalyzer(); analyzer.visit(tree)
StartWalk(t) == [NewAnalyzer EXCEPT !.todo = <<VisitItem(t)>>]

\* A file's text: [ok |-> TRUE, tree |-> t] parses to t, [ok |-> FALSE] makes
\* open() or ast.parse raise.  analyze_file returns None (ok FALSE) for it.
Parses(t) == [ok |-> TRUE, tree |-> t]

Broken == [ok |-> FALSE]

analyze_file(src) ==
    IF src.ok
    THEN [ok |-> TRUE, definitions |-> RunWalk(StartWalk(src.tree)).definitions]
    ELSE [ok |-> FALSE]

----------------------------------------------------------------------------
(* os.path, for absolute POSIX paths (os.sep is "/") *)

RECURSIVE NormParts(_, _)
\* normpath's loop over the components: '' and '.' dropped, '..' pops
NormParts(comps, acc) ==
    IF comps = <<>> THEN acc
    ELSE LET c == Head(comps) IN
         IF c = "" \/ c = "." THEN NormParts(Tail(comps), acc)
         ELSE IF c = ".."
              THEN NormParts(Tail(comps), SubSeq(acc, 1, IF acc = <<>> THEN 0 ELSE Len(acc) - 1))
              ELSE NormParts(Tail(comps), Append(acc, c))

\* os.path.abspath(os.path.normpath(path))
normalize_dir(path) == "/" \o Join(NormParts(Split(path, "/"), <<>>), "/")

\* commonpath's split_paths: [c for c in s if c and c != curdir]
PathParts(path) == SelectSeq(Split(path, "/"), LAMBDA c : c # "" /\ c # ".")

RECURSIVE CommonPrefix(_, _)
CommonPrefix(s1, s2) ==
    IF s1 = <<>> \/ s2 = <<>> \/ Head(s1) # Head(s2) THEN <<>>
    ELSE <<Head(s1)>> \o CommonPrefix(Tail(s1), Tail(s2))

\* os.path.commonpath([p, q])
commonpath(p, q) == "/" \o Join(CommonPrefix(PathParts(p), PathParts(q)), "/")

\* mutant of is_within: the prefix taken of the strings, not of the components
is_within_by_string_prefix(root, candidate) == StartsWith(candidate, root)

\* The ValueError of commonpath (a mix of absolute and relative paths) cannot
\* arise: both paths went through os.path.abspath.
is_within(root, candidate) == commonpath(root, candidate) = root

\* os.path.relpath(path, start)
relpath(path, start) ==
    LET start_list == PathParts(start)
        path_list == PathParts(path)
        i == Len(CommonPrefix(start_list, path_list))
        rel_list == [k \in 1..(Len(start_list) - i) |-> ".."]
                        \o SubSeq(path_list, i + 1, Len(path_list))
    IN IF rel_list = <<>> THEN "." ELSE Join(rel_list, "/")

\* os.path.dirname
dirname(p) ==
    LET i == FindLast(p, "/", Len(p)) IN
    IF i <= 1 THEN SubSeq(p, 1, i) ELSE SubSeq(p, 1, i - 1)

\* os.path.basename
basename(p) == SubSeq(p, FindLast(p, "/", Len(p)) + 1, Len(p))

----------------------------------------------------------------------------
(* main.py: the stages of main() as functions of what they read *)

\* utils.get_py_files: os.walk yields the files in the order dir_order
get_py_files(order, root_dir) ==
    SelectSeq(order, LAMBDA p : StartsWith(p, root_dir \o "/") /\ EndsWith(p, ".py"))

\* rel_path.replace(os.sep, '.').replace('.py', '')
ModuleOf(file_path, root) == Replace(Replace(relpath(file_path, root), "/", "."), ".py", "")

\* the package name a module registers, or NoName
PackageOf(module) ==
    IF EndsWith(module, "__init__") /\ Contains(module, ".")
    THEN RSplit1(module, ".")[1]
    ELSE NoName

RECURSIVE ModuleInfo(_, _, _, _)
\* the loop of main.py:70-79 from file i on; acc is [file_module_info, module_to_file]
ModuleInfo(files, root, i, acc) ==
    IF i > Len(files) THEN acc
    ELSE LET file_path == files[i]
             module == ModuleOf(file_path, root)
             m2f == DictSet(acc.module_to_file, module, file_path)
         IN ModuleInfo(files, root, i + 1,
                [file_module_info |->
                    DictSet(acc.file_module_info, file_path,
                            [module |-> module, display |-> "from " \o module]),
                 module_to_file |->
                    IF PackageOf(module) # NoName
                    THEN DictSet(m2f, PackageOf(module), file_path)
                    ELSE m2f])

\* the text of a file of the file set files
SrcOf(files, path) == (CHOOSE f \in files : f.path = path).src

RECURSIVE AnalyzeAll(_, _, _, _)
\* the loop of main.py:82-85 from file i on
AnalyzeAll(files, paths, i, acc) ==
    IF i > Len(paths) THEN acc
    ELSE LET data == analyze_file(SrcOf(files, paths[i])) IN
         AnalyzeAll(files, paths, i + 1,
                    IF data.ok THEN DictSet(acc, paths[i], data.definitions) ELSE acc)

RECURSIVE IndexNames_with_bare_methods(_, _, _, _)
\* mutant of IndexNames: a method indexed under its bare name as well
IndexNames_with_bare_methods(index, definitions, entry, i) ==
    IF i > Len(definitions) THEN index
    ELSE LET def_name == definitions[i].k
             qualified == DictSet(index, def_name,
                                  Append(DictGetOr(index, def_name, <<>>), entry))
             bare == Split1(def_name, ".")[2]
         IN IndexNames_with_bare_methods(
                IF Contains(def_name, ".")
                THEN DictSet(qualified, bare, Append(DictGetOr(qualified, bare, <<>>), entry))
                ELSE qualified,
                definitions, entry, i + 1)

RECURSIVE IndexNames(_, _, _, _)
\* the inner loop of main.py:90-91: every key of one file's table
IndexNames(index, definitions, entry, i) ==
    IF i > Len(definitions) THEN index
    ELSE IndexNames(
            DictSet(index, definitions[i].k,
                    Append(DictGetOr(index, definitions[i].k, <<>>), entry)),
            definitions, entry, i + 1)

RECURSIVE IndexFiles(_, _, _, _)
\* the loop of main.py:88-91 from file i on
IndexFiles(data, info, i, index) ==
    IF i > Len(data) THEN index
    ELSE IndexFiles(data, info, i + 1,
            IndexNames(index, data[i].v,
                       [file_path |-> data[i].k, display |-> DictGet(info, data[i].k).display],
                       1))

BuildSymbolIndex(data, info) == IndexFiles(data, info, 1, <<>>)

RECURSIVE NestClasses(_, _, _)
\* main.py:95-99: every class, with an empty methods map
NestClasses(definitions, i, new) ==
    IF i > Len(definitions) THEN new
    ELSE NestClasses(definitions, i + 1,
            IF definitions[i].v.type = "class"
            THEN DictSet(new, definitions[i].k, [methods |-> <<>>] @@ definitions[i].v)
            ELSE new)

RECURSIVE NestFunctions_keeping_methods(_, _, _)
\* mutant of NestFunctions: a method also stays in the table under Class.method
NestFunctions_keeping_methods(definitions, i, new) ==
    IF i > Len(definitions) THEN [ok |-> TRUE, definitions |-> new]
    ELSE LET def_name == definitions[i].k
             def_data == definitions[i].v
             class_name == Split1(def_name, ".")[1]
             method_name == Split1(def_name, ".")[2]
         IN IF def_data.type = "function" /\ Contains(def_name, ".") /\ DictHas(new, class_name)
            THEN NestFunctions_keeping_methods(definitions, i + 1,
                    DictSet(DictSet(new, class_name,
                                [DictGet(new, class_name) EXCEPT
                                    !.methods = DictSet(@, method_name, def_data)]),
                            def_name, def_data))
            ELSE IF def_data.type = "function"
                 THEN NestFunctions_keeping_methods(definitions, i + 1,
                                                    DictSet(new, def_name, def_data))
                 ELSE NestFunctions_keeping_methods(definitions, i + 1, new)

RECURSIVE NestFunctions(_, _, _)
\* main.py:100-106: methods go under their class, other functions stay;
\* ok is FALSE when new_definitions[class_name]['methods'] raises KeyError
NestFunctions(definitions, i, new) ==
    IF i > Len(definitions) THEN [ok |-> TRUE, definitions |-> new]
    ELSE LET def_name == definitions[i].k
             def_data == definitions[i].v
             class_name == Split1(def_name, ".")[1]
             method_name == Split1(def_name, ".")[2]
         IN IF def_data.type = "function" /\ Contains(def_name, ".")
            THEN IF DictHas(new, class_name)
                 THEN IF "methods" \in DOMAIN DictGet(new, class_name)
                      THEN NestFunctions(definitions, i + 1,
                              DictSet(new, class_name,
                                  [DictGet(new, class_name) EXCEPT
                                      !.methods = DictSet(@, method_name, def_data)]))
                      ELSE [ok |-> FALSE, definitions |-> new]
                 ELSE NestFunctions(definitions, i + 1, new)
            ELSE IF def_data.type = "function"
                 THEN NestFunctions(definitions, i + 1, DictSet(new, def_name, def_data))
                 ELSE NestFunctions(definitions, i + 1, new)

\* the body of the loop of main.py:93-107 for one file
Nest(definitions) == NestFunctions(definitions, 1, NestClasses(definitions, 1, <<>>))

RECURSIVE NestAll(_, _)
\* the loop of main.py:93-107 from file i on
NestAll(data, i) ==
    IF i > Len(data) THEN [ok |-> TRUE, data |-> data]
    ELSE LET n == Nest(data[i].v) IN
         IF n.ok THEN NestAll([data EXCEPT ![i].v = n.definitions], i + 1)
         ELSE [ok |-> FALSE, data |-> data]

\* mutant of FocusFiles: every analyzed file taken
FocusFiles_whole_scan(data, focus) == KeySet(data)

\* main.py:109
FocusFiles(data, focus) == {path \in KeySet(data) : is_within(focus, path)}

\* resolve_symbol's None
NoEntry == [file_path |-> NoName, display |-> NoName]

RECURSIVE FirstEntry(_, _, _)
\* the first entry from i on whose file is one of files, or NoEntry
FirstEntry(entries, files, i) ==
    IF i > Len(entries) THEN NoEntry
    ELSE IF entries[i].file_path \in files THEN entries[i]
    ELSE FirstEntry(entries, files, i + 1)

\* mutant of resolve_symbol: the first entry of the index, in focus or not
resolve_symbol_first_entry(index, focus, name, preferred_file) ==
    LET entries == DictGetOr(index, name, <<>>) IN
    IF entries = <<>> THEN NoEntry ELSE entries[1]

\* mutant of resolve_symbol: the preferred file not looked for
resolve_symbol_no_preference(index, focus, name, preferred_file) ==
    FirstEntry(DictGetOr(index, name, <<>>), focus, 1)

\* resolve_symbol, with the symbol_to_file and focus_files it closes over
resolve_symbol(index, focus, name, preferred_file) ==
    LET entries == DictGetOr(index, name, <<>>)
        preferred == IF preferred_file # NoName
                     THEN FirstEntry(entries, {preferred_file} \cap focus, 1)
                     ELSE NoEntry
    IN IF preferred # NoEntry THEN preferred ELSE FirstEntry(entries, focus, 1)

\* a value of used_functions: the display string (grouped FALSE) or the
\* {'file': display, 'methods': [...]} dict (grouped TRUE)
SimpleRef(display) == [grouped |-> FALSE, file |-> display, methods |-> <<>>]

GroupedRef(display, methods) == [grouped |-> TRUE, file |-> display, methods |-> methods]

RECURSIVE ResolveNames(_, _, _, _, _)
\* the loop of main.py:124-127 over used_names, iterated in the order names
ResolveNames(index, focus, names, i, used_functions) ==
    IF i > Len(names) THEN used_functions
    ELSE LET target == resolve_symbol(index, focus, names[i], NoName) IN
         ResolveNames(index, focus, names, i + 1,
            IF target # NoEntry
            THEN DictSet(used_functions, names[i], SimpleRef(target.display))
            ELSE used_functions)

RECURSIVE ResolveAttrs_keyed_by_module(_, _, _, _, _, _)
\* mutant of ResolveAttrs: the entry of an attribute put under the name of the
\* module it was read from
ResolveAttrs_keyed_by_module(index, focus, module_file, methods, i, used_functions) ==
    IF i > Len(methods) THEN used_functions
    ELSE LET method_target == resolve_symbol(index, focus, methods[i], module_file) IN
         ResolveAttrs_keyed_by_module(index, focus, module_file, methods, i + 1,
            IF method_target # NoEntry
            THEN DictSet(used_functions, basename(dirname(module_file)),
                         SimpleRef(method_target.display))
            ELSE used_functions)

RECURSIVE ResolveAttrs(_, _, _, _, _, _)
\* the loop of main.py:138-141 over sorted(methods)
ResolveAttrs(index, focus, module_file, methods, i, used_functions) ==
    IF i > Len(methods) THEN used_functions
    ELSE LET method_target == resolve_symbol(index, focus, methods[i], module_file) IN
         ResolveAttrs(index, focus, module_file, methods, i + 1,
            IF method_target # NoEntry
            THEN DictSet(used_functions, methods[i], SimpleRef(method_target.display))
            ELSE used_functions)

RECURSIVE ResolveBases_aggregators_only(_, _, _, _, _, _)
\* mutant of ResolveBases: the attributes resolved only for a package __init__.py
ResolveBases_aggregators_only(index, m2f, focus, ucm, i, used_functions) ==
    IF i > Len(ucm) THEN used_functions
    ELSE LET base == ucm[i].k
             methods == ucm[i].v
             target == resolve_symbol(index, focus, base, NoName)
             module_file == DictGetOr(m2f, base, NoName)
         IN ResolveBases_aggregators_only(index, m2f, focus, ucm, i + 1,
                IF target # NoEntry /\ methods # {}
                THEN DictSet(used_functions, base, GroupedRef(target.display, Sorted(methods)))
                ELSE IF /\ module_file # NoName
                        /\ module_file \in focus
                        /\ basename(module_file) = "__init__.py"
                     THEN ResolveAttrs(index, focus, module_file, Sorted(methods), 1,
                                       used_functions)
                     ELSE used_functions)

RECURSIVE ResolveBases(_, _, _, _, _, _)
\* the loop of main.py:128-141 over used_classes_methods.items()
ResolveBases(index, m2f, focus, ucm, i, used_functions) ==
    IF i > Len(ucm) THEN used_functions
    ELSE LET base == ucm[i].k
             methods == ucm[i].v
             target == resolve_symbol(index, focus, base, NoName)
             module_file == DictGetOr(m2f, base, NoName)
         IN ResolveBases(index, m2f, focus, ucm, i + 1,
                IF target # NoEntry /\ methods # {}
                THEN DictSet(used_functions, base, GroupedRef(target.display, Sorted(methods)))
                ELSE IF module_file # NoName /\ module_file \in focus
                     THEN ResolveAttrs(index, focus, module_file, Sorted(methods), 1,
                                       used_functions)
                     ELSE used_functions)

\* dict.pop of each of fields
Drop(rec, fields) == [f \in DOMAIN rec \ fields |-> rec[f]]

\* build_used_functions; names is the order in which the set used_names is iterated
build_used_functions(index, m2f, focus, def_data, names) ==
    [used_functions |->
        ResolveBases(index, m2f, focus, def_data.used_classes_methods, 1,
                     ResolveNames(index, focus, names, 1, <<>>))]
        @@ Drop(def_data, {"used_names", "used_classes_methods", "type"})

RECURSIVE MethodSteps(_, _, _)
MethodSteps(f, d, n) ==
    IF n = 0 THEN <<>> ELSE Append(MethodSteps(f, d, n - 1), [f |-> f, d |-> d, m |-> n])

RECURSIVE DefSteps(_, _, _)
DefSteps(data, f, d) ==
    IF d > Len(data[f].v) THEN <<>>
    ELSE LET def_data == data[f].v[d].v IN
         <<[f |-> f, d |-> d, m |-> 0]>>
            \o (IF "methods" \in DOMAIN def_data
                THEN MethodSteps(f, d, Len(def_data.methods)) ELSE <<>>)
            \o DefSteps(data, f, d + 1)

RECURSIVE FileSteps(_, _)
FileSteps(data, f) ==
    IF f > Len(data) THEN <<>> ELSE DefSteps(data, f, 1) \o FileSteps(data, f + 1)

\* the calls of build_used_functions in the order of the loop of main.py:147-152:
\* file f, definition d, and method m of it (0: the definition itself)
ResolveSteps(data) == FileSteps(data, 1)

\* the record a step resolves
RecordAt(data, step) ==
    IF step.m = 0 THEN data[step.f].v[step.d].v
    ELSE data[step.f].v[step.d].v.methods[step.m].v

\* files_data with the record of a step replaced
WithRecord(data, step, rec) ==
    IF step.m = 0 THEN [data EXCEPT ![step.f].v[step.d].v = rec]
    ELSE [data EXCEPT ![step.f].v[step.d].v.methods[step.m].v = rec]

RECURSIVE ResolveAll(_, _, _, _, _)
\* the whole loop of main.py:147-152, every set iterated in sorted order
ResolveAll(index, m2f, focus, data, i) ==
    IF i > Len(ResolveSteps(data)) THEN data
    ELSE LET step == ResolveSteps(data)[i]
             rec == RecordAt(data, step)
         IN ResolveAll(index, m2f, focus,
                WithRecord(data, step,
                    build_used_functions(index, m2f, focus, rec, Sorted(rec.used_names))),
                i + 1)

NoOutput ==
    [files |-> <<>>, file_meta |-> <<>>,
     config |-> [scan_root |-> NoName, focus_root |-> NoName]]

RECURSIVE Assemble(_, _, _, _, _, _)
\* the loop of main.py:157-165 from file i on; out is [files, file_meta]
Assemble(data, focus, info, parent_dir, i, out) ==
    IF i > Len(data) THEN out
    ELSE LET file_path == data[i].k
             rel_path == Replace(relpath(file_path, parent_dir), "/", "/")
         IN Assemble(data, focus, info, parent_dir, i + 1,
                IF file_path \notin focus THEN out
                ELSE [files |-> DictSet(out.files, rel_path, data[i].v),
                      file_meta |->
                        DictSet(out.file_meta, rel_path,
                                [is_router |-> basename(file_path) = "__init__.py",
                                 module |-> DictGet(info, file_path).module])])

\* main.py:154-174
BuildOutput(data, focus, info, scan, focus_dir) ==
    LET out == Assemble(data, focus, info, dirname(scan), 1,
                        [files |-> <<>>, file_meta |-> <<>>])
    IN [files |-> out.files, file_meta |-> out.file_meta,
        config |-> [scan_root |-> scan, focus_root |-> focus_dir]]

----------------------------------------------------------------------------
(* The trees of SpecWalk *)

SeqsUpTo(S, n) == UNION {[1..k -> S] : k \in 0..n}

SelfAttr(attr) == Attribute(Name("self"), attr)

\* self.db = Store()
AssignStore == Assign(<<SelfAttr("db")>>, Call(Name("Store"), <<>>))

\* self.db = Mem(), Mem imported by: from cache import Cache as Mem
AssignMem == Assign(<<SelfAttr("db")>>, Call(Name("Mem"), <<>>))

\* self.db.save()
AccessSave == Expr(Call(Attribute(SelfAttr("db"), "save"), <<>>))

StmtPool == {AssignStore, AssignMem, AccessSave}

MethodNames == {"__init__", "run"}

RECURSIVE Methods(_)
\* the methods of the generated class: each [m, s] adds statement s to the
\* method m being written, or opens a new def m
Methods(pairs) ==
    IF pairs = <<>> THEN <<>>
    ELSE LET front == Methods(SubSeq(pairs, 1, Len(pairs) - 1))
             p == pairs[Len(pairs)]
         IN IF front # <<>> /\ front[Len(front)].name = p.m
            THEN [front EXCEPT ![Len(front)].body = Append(@, p.s)]
            ELSE Append(front, FunctionDef(p.m, 4, 5, <<"self">>, <<p.s>>, <<>>))

\* from cache import Cache as Mem; import storage.backend as sb; class Svc: ...
ServiceTree(pairs) ==
    Module(<<ImportFrom("cache", <<alias("Cache", "Mem")>>),
             Import(<<alias("storage.backend", "sb")>>),
             ClassDef("Svc", 3, 9, <<>>, Methods(pairs), <<>>)>>)

ServiceTrees ==
    {ServiceTree(pairs) : pairs \in SeqsUpTo([m : MethodNames, s : StmtPool], MaxStmts) \ {<<>>}}

DecoratorPool ==
    {Call(Attribute(Name("app"), "route"), <<Constant>>),                 \* @app.route("/x")
     Name("staticmethod"),                                                \* @staticmethod
     Attribute(Attribute(Name("api"), "v1"), "users"),                    \* @api.v1.users
     Attribute(Name("Bp"), "GET"),                                        \* @Bp.GET
     Name("getter"),                                                      \* @getter
     Call(Attribute(Name("cache"), "memoize"), <<Constant>>),             \* @cache.memoize(60)
     Attribute(Subscript(Name("handlers"), Constant), "post"),            \* @handlers[0].post
     Call(Name("make"), <<Name("route")>>),                               \* @make(route)
     Attribute(Call(Attribute(Name("app"), "route"), <<Constant>>), "cached")}  \* @app.route("/x").cached

\* @decos def view(): pass;  @decos class Ctl: @decos async def get(self): pass
DecoratedTree(decos) ==
    Module(<<FunctionDef("view", 1, 2, <<>>, <<Pass>>, decos),
             ClassDef("Ctl", 3, 6, <<>>,
                      <<AsyncFunctionDef("get", 4, 5, <<"self">>, <<Pass>>, decos)>>,
                      decos)>>)

DecoratedTrees == {DecoratedTree(decos) : decos \in SeqsUpTo(DecoratorPool, MaxDecorators)}

\* the statements of the function of an import tree
UsePool ==
    {Expr(Call(Name("T"), <<>>)),                            \* T()
     Expr(Call(Name("pt"), <<>>)),                           \* pt()
     Expr(Call(Attribute(Name("pt"), "run"), <<>>)),         \* pt.run()
     Expr(Call(Attribute(Name("T"), "make"), <<>>)),         \* T.make()
     Expr(Call(Attribute(Name("os"), "getcwd"), <<>>)),      \* os.getcwd()
     Assign(<<NameStore("tmp")>>, Name("star")),             \* tmp = star
     Import(<<alias("alt", "T")>>)}                          \* import alt as T

\* import pkg.tools as pt
\* from lib.things import Thing as T
\* from lib import *
\* import os
\* from . import sib
\* T()
\* def use(): uses
\* def after(): T()
ImportTree(uses) ==
    Module(<<Import(<<alias("pkg.tools", "pt")>>),
             ImportFrom("lib.things", <<alias("Thing", "T")>>),
             ImportFrom("lib", <<alias("*", NoName)>>),
             Import(<<alias("os", NoName)>>),
             ImportFrom(NoName, <<alias("sib", NoName)>>),
             Expr(Call(Name("T"), <<>>)),
             FunctionDef("use", 7, 9, <<>>, uses, <<>>),
             FunctionDef("after", 10, 11, <<>>, <<Expr(Call(Name("T"), <<>>))>>, <<>>)>>)

ImportTrees == {ImportTree(uses) : uses \in SeqsUpTo(UsePool, MaxStmts) \ {<<>>}}

\* self.x = B()
AssignB == Assign(<<SelfAttr("x")>>, Call(Name("B"), <<>>))

\* def g(self): pass
LateDef == FunctionDef("g", 8, 8, <<"self">>, <<Pass>>, <<>>)

\* class <name>: body, or def <name>(self): body
MakeDef(h, lineno, body) ==
    IF h.kind = "ClassDef"
    THEN ClassDef(h.name, lineno, lineno + 1, <<>>, body, <<>>)
    ELSE FunctionDef(h.name, lineno, lineno + 1, <<"self">>, body, <<>>)

Headers == [kind : {"ClassDef", "FunctionDef"}, name : {"A", "f"}]

NoHeader == [kind |-> "none", name |-> NoName]

RECURSIVE NestedDef(_, _, _)
\* the definition chain[i] with chain[i + 1] nested in it, then self.x = B(),
\* then (late) def g(self)
NestedDef(chain, i, late) ==
    MakeDef(chain[i], i + 1,
            (IF i < Len(chain) THEN <<NestedDef(chain, i + 1, FALSE)>> ELSE <<>>)
               \o <<AssignB>>
               \o (IF late THEN <<LateDef>> ELSE <<>>))

\* """doc"""; the chain of nested definitions; one more top-level definition
NestTree(chain, late, sibling) ==
    Module(<<Expr(Constant), NestedDef(chain, 1, late)>>
              \o (IF sibling = NoHeader THEN <<>>
                  ELSE <<MakeDef(sibling, 20, <<AssignB>>)>>))

NestTrees ==
    {NestTree(chain, late, sibling) :
        chain \in SeqsUpTo(Headers, MaxNest) \ {<<>>},
        late \in BOOLEAN,
        sibling \in Headers \cup {NoHeader}}

WalkTrees == ServiceTrees \cup DecoratedTrees \cup ImportTrees \cup NestTrees

\* which family a tree of WalkTrees is of
IsServiceTree(t) == t.body[1].kind = "ImportFrom"

IsDecoratedTree(t) == t.body[1].kind = "FunctionDef"

IsImportTree(t) == t.body[1].kind = "Import"

IsNestTree(t) == t.body[1].kind = "Expr"

----------------------------------------------------------------------------
(* SpecWalk: analyzer.visit(tree), one visitor call or scope exit per step *)

\* no run of main() in progress
NoFile == [exists |-> FALSE, content |-> NoOutput]

MainIdle ==
    /\ walks = <<>>
    /\ fs = {} /\ dir_order = <<>>
    /\ argv = [scan_root |-> "", focus_root |-> "", output |-> ""]
    /\ pc = "idle" /\ scan_root = "" /\ focus_root = ""
    /\ py_files = <<>> /\ file_module_info = <<>> /\ module_to_file = <<>>
    /\ files_data = <<>> /\ symbol_to_file = <<>> /\ focus_files = {}
    /\ cursor = 0 /\ output = NoOutput /\ out_file = NoFile /\ first_out = NoFile
    /\ error = ""

InitWalk ==
    /\ tree \in WalkTrees
    /\ az = StartWalk(tree)
    /\ walked = <<>>
    /\ MainIdle

NextNode == Head(az.todo).node

\* the next pending call is the visit of a node of one of kinds
NextIs(kinds) ==
    /\ az.todo # <<>>
    /\ Head(az.todo).op = "visit"
    /\ NextNode.kind \in kinds

VisitClassDef ==
    /\ NextIs({"ClassDef"})
    /\ az' = WalkStep(az)
    /\ walked' = Append(walked, NextNode)
    /\ UNCHANGED <<tree, main_vars>>

VisitFunctionDef ==
    /\ NextIs({"FunctionDef", "AsyncFunctionDef"})
    /\ az' = WalkStep(az)
    /\ walked' = Append(walked, NextNode)
    /\ UNCHANGED <<tree, main_vars>>

VisitAssign ==
    /\ NextIs({"Assign"})
    /\ az' = WalkStep(az)
    /\ walked' = Append(walked, NextNode)
    /\ UNCHANGED <<tree, main_vars>>

VisitImport ==
    /\ NextIs({"Import"})
    /\ az' = WalkStep(az)
    /\ walked' = Append(walked, NextNode)
    /\ UNCHANGED <<tree, main_vars>>

VisitImportFrom ==
    /\ NextIs({"ImportFrom"})
    /\ az' = WalkStep(az)
    /\ walked' = Append(walked, NextNode)
    /\ UNCHANGED <<tree, main_vars>>

VisitName ==
    /\ NextIs({"Name"})
    /\ az' = WalkStep(az)
    /\ walked' = Append(walked, NextNode)
    /\ UNCHANGED <<tree, main_vars>>

VisitAttribute ==
    /\ NextIs({"Attribute"})
    /\ az' = WalkStep(az)
    /\ walked' = Append(walked, NextNode)
    /\ UNCHANGED <<tree, main_vars>>

\* generic_visit of a node the class has no visitor for
GenericVisit ==
    /\ NextIs({"Module", "Expr", "Call", "Subscript", "Pass", "Constant"})
    /\ az' = WalkStep(az)
    /\ walked' = Append(walked, NextNode)
    /\ UNCHANGED <<tree, main_vars>>

\* self.scopes.pop() at the end of visit_ClassDef and visit_FunctionDef
LeaveScope ==
    /\ az.todo # <<>>
    /\ Head(az.todo).op = "pop"
    /\ az' = WalkStep(az)
    /\ UNCHANGED <<tree, walked, main_vars>>

NextWalk ==
    \/ VisitClassDef \/ VisitFunctionDef \/ VisitAssign \/ VisitImport
    \/ VisitImportFrom \/ VisitName \/ VisitAttribute \/ GenericVisit
    \/ LeaveScope

SpecWalk == InitWalk /\ [][NextWalk]_vars

----------------------------------------------------------------------------
(* The file trees and arguments of Spec *)

\* class Thing:
\*     def bar(self): Thing()
ThingsSrc ==
    Parses(Module(<<
        ClassDef("Thing", 1, 2, <<>>,
                 <<FunctionDef("bar", 2, 2, <<"self">>,
                               <<Expr(Call(Name("Thing"), <<>>))>>, <<>>)>>, <<>>)>>))

\* class Thing: pass
AltSrc == Parses(Module(<<ClassDef("Thing", 1, 1, <<>>, <<Pass>>, <<>>)>>))

\* def helper(): pass
HelperSrc == Parses(Module(<<FunctionDef("helper", 1, 1, <<>>, <<Pass>>, <<>>)>>))

\* class Job:
\*     def run(self): pass
\* def Job(): pass
JobSrc ==
    Parses(Module(<<
        ClassDef("Job", 1, 2, <<>>,
                 <<FunctionDef("run", 2, 2, <<"self">>, <<Pass>>, <<>>)>>, <<>>),
        FunctionDef("Job", 3, 3, <<>>, <<Pass>>, <<>>)>>))

\* from lib.things import Thing, Thing as T
\* from mod import helper
\* import mod
\* def run(): Thing().bar()
\* def make():
\*     T()
\*     helper()
\* def load():
\*     mod.helper()
\*     Thing.bar()
\* def both():
\*     Thing.bar()
\*     mod.Thing()
MainSrc ==
    Parses(Module(<<
        ImportFrom("lib.things", <<alias("Thing", NoName), alias("Thing", "T")>>),
        ImportFrom("mod", <<alias("helper", NoName)>>),
        Import(<<alias("mod", NoName)>>),
        FunctionDef("run", 4, 4, <<>>,
            <<Expr(Call(Attribute(Call(Name("Thing"), <<>>), "bar"), <<>>))>>, <<>>),
        FunctionDef("make", 5, 7, <<>>,
            <<Expr(Call(Name("T"), <<>>)), Expr(Call(Name("helper"), <<>>))>>, <<>>),
        FunctionDef("load", 8, 10, <<>>,
            <<Expr(Call(Attribute(Name("mod"), "helper"), <<>>)),
              Expr(Call(Attribute(Name("Thing"), "bar"), <<>>))>>, <<>>),
        FunctionDef("both", 11, 13, <<>>,
            <<Expr(Call(Attribute(Name("Thing"), "bar"), <<>>)),
              Expr(Call(Attribute(Name("mod"), "Thing"), <<>>))>>, <<>>)>>))

File(path, src) == [path |-> path, src |-> src]

CandidateFiles ==
    { File("/w/proj/lib/things.py", ThingsSrc),
      File("/w/proj/app/alt.py", AltSrc),
      File("/w/proj/app/main.py", MainSrc),
      File("/w/proj/mod.py", HelperSrc),
      File("/w/proj/mod/__init__.py", Broken),
      File("/w/proj/mod/__init__.py", HelperSrc),
      File("/w/proj/app/pytools.py", HelperSrc),
      File("/w/proj/app/my__init__.py", HelperSrc),
      File("/w/proj/app/job.py", JobSrc) }

Paths(files) == {f.path : f \in files}

\* the file trees: up to MaxFiles files, one text per path
FileTrees ==
    {files \in SUBSET CandidateFiles :
        /\ files # {}
        /\ Cardinality(files) <= MaxFiles
        /\ Cardinality(Paths(files)) = Cardinality(files)}

Under(dir, path) == StartsWith(path, dir \o "/")

\* the directories above a path
Ancestors(path) ==
    {"/" \o Join(SubSeq(PathParts(path), 1, n), "/") : n \in 1..(Len(PathParts(path)) - 1)}

\* the orders in which os.walk (top-down) can yield the files: the files of a
\* directory before those of its subdirectories, each subdirectory in one piece
WalkOrders(paths) ==
    {order \in Orders(paths) :
        \A i, j \in 1..Len(order) :
            i < j =>
                /\ ~Under(dirname(order[j]), dirname(order[i]))
                /\ \A dir \in Ancestors(order[i]) :
                      (Under(dir, order[j]) => \A k \in i..j : Under(dir, order[k]))}

\* directories that exist whatever the files are
FixedDirs == {"/", "/w", "/w/proj", "/w/proj/app", "/w/proj2"}

\* os.path.isdir
isdir(files, path) == path \in FixedDirs \/ \E f \in files : Under(path, f.path)

ScanArgs == {"/w/proj/", "/w/proj/app", "/w/gone"}

FocusArgs == {"/w/proj", "/w/proj/app/", "/w/proj2", "/w", "/w/gone"}

OutputArg == "/w/out/output.json"

\* what an earlier use of the tool left at the output path
StaleFile == [exists |-> TRUE, content |-> [NoOutput EXCEPT !.config.scan_root = "/old"]]

----------------------------------------------------------------------------
(* Spec: main(), one stage per step, and a second run over the same files *)

WalkIdle == tree = Module(<<>>) /\ az = NewAnalyzer /\ walked = <<>> /\ walks = <<>>

\* the locals of main() before it starts
Fresh ==
    /\ pc = "start" /\ scan_root = "" /\ focus_root = ""
    /\ py_files = <<>> /\ file_module_info = <<>> /\ module_to_file = <<>>
    /\ files_data = <<>> /\ symbol_to_file = <<>> /\ focus_files = {}
    /\ cursor = 0 /\ output = NoOutput /\ error = ""

Init ==
    /\ WalkIdle
    /\ fs \in FileTrees
    /\ dir_order \in WalkOrders(Paths(fs))
    /\ argv \in [scan_root : ScanArgs, focus_root : FocusArgs, output : {OutputArg}]
    /\ out_file \in {NoFile, StaleFile}
    /\ first_out = NoFile
    /\ Fresh

env_vars == <<walks, tree, az, walked, fs, dir_order, argv>>

\* main.py:56-58
ParseArgs ==
    /\ pc = "start"
    /\ scan_root' = normalize_dir(argv.scan_root)
    /\ focus_root' = normalize_dir(argv.focus_root)
    /\ pc' = "check"
    /\ UNCHANGED <<env_vars, py_files, file_module_info, module_to_file, files_data,
                   symbol_to_file, focus_files, cursor, output, out_file, first_out, error>>

\* raise: main() ends with the message
Raise(message) ==
    /\ error' = message
    /\ pc' = "aborted"
    /\ UNCHANGED <<env_vars, scan_root, focus_root, py_files, file_module_info,
                   module_to_file, files_data, symbol_to_file, focus_files, cursor,
                   output, out_file, first_out>>

\* main.py:60-61
ScanRootMissing ==
    /\ pc = "check"
    /\ ~isdir(fs, scan_root)
    /\ Raise("Scan root does not exist: " \o scan_root)

\* main.py:62-63
FocusRootMissing ==
    /\ pc = "check"
    /\ isdir(fs, scan_root)
    /\ ~isdir(fs, focus_root)
    /\ Raise("Focus root does not exist: " \o focus_root)

\* main.py:64-65
FocusOutsideScan ==
    /\ pc = "check"
    /\ isdir(fs, scan_root) /\ isdir(fs, focus_root)
    /\ ~is_within(scan_root, focus_root)
    /\ Raise("Focus root must be inside the scan root so dependencies can be resolved correctly.")

\* main.py:67
GetPyFiles ==
    /\ pc = "check"
    /\ isdir(fs, scan_root) /\ isdir(fs, focus_root)
    /\ is_within(scan_root, focus_root)
    /\ py_files' = get_py_files(dir_order, scan_root)
    /\ pc' = "modules"
    /\ UNCHANGED <<env_vars, scan_root, focus_root, file_module_info, module_to_file,
                   files_data, symbol_to_file, focus_files, cursor, output, out_file,
                   first_out, error>>

\* main.py:68-79
BuildModuleInfo ==
    /\ pc = "modules"
    /\ LET info == ModuleInfo(py_files, scan_root, 1,
                              [file_module_info |-> <<>>, module_to_file |-> <<>>])
       IN /\ file_module_info' = info.file_module_info
          /\ module_to_file' = info.module_to_file
    /\ cursor' = 1
    /\ pc' = "analyze"
    /\ UNCHANGED <<env_vars, scan_root, focus_root, py_files, files_data, symbol_to_file,
                   focus_files, output, out_file, first_out, error>>

\* main.py:82-85, one file: analyze_file returns the definitions
AnalyzeFileOk ==
    /\ pc = "analyze"
    /\ cursor <= Len(py_files)
    /\ LET data == analyze_file(SrcOf(fs, py_files[cursor])) IN
       /\ data.ok
       /\ files_data' = DictSet(files_data, py_files[cursor], data.definitions)
    /\ cursor' = cursor + 1
    /\ UNCHANGED <<env_vars, pc, scan_root, focus_root, py_files, file_module_info,
                   module_to_file, symbol_to_file, focus_files, output, out_file,
                   first_out, error>>

\* main.py:82-85, one file: analyze_file prints the diagnostic and returns None
AnalyzeFileFails ==
    /\ pc = "analyze"
    /\ cursor <= Len(py_files)
    /\ ~analyze_file(SrcOf(fs, py_files[cursor])).ok
    /\ cursor' = cursor + 1
    /\ UNCHANGED <<env_vars, pc, scan_root, focus_root, py_files, file_module_info,
                   module_to_file, files_data, symbol_to_file, focus_files, output,
                   out_file, first_out, error>>

\* mutant of IndexSymbols: the index built while files are still to be analyzed
IndexSymbols_before_extraction_ends ==
    /\ pc = "analyze"
    /\ symbol_to_file' = BuildSymbolIndex(files_data, file_module_info)
    /\ pc' = "nest"
    /\ UNCHANGED <<env_vars, scan_root, focus_root, py_files, file_module_info,
                   module_to_file, files_data, focus_files, cursor, output, out_file,
                   first_out, error>>

\* main.py:87-91
IndexSymbols ==
    /\ pc = "analyze"
    /\ cursor > Len(py_files)
    /\ symbol_to_file' = BuildSymbolIndex(files_data, file_module_info)
    /\ pc' = "nest"
    /\ UNCHANGED <<env_vars, scan_root, focus_root, py_files, file_module_info,
                   module_to_file, files_data, focus_files, cursor, output, out_file,
                   first_out, error>>

\* main.py:93-107; an uncaught KeyError ends main()
NestMethods ==
    /\ pc = "nest"
    /\ LET nested == NestAll(files_data, 1) IN
       /\ files_data' = nested.data
       /\ pc' = IF nested.ok THEN "focus" ELSE "aborted"
       /\ error' = IF nested.ok THEN error ELSE "KeyError: 'methods'"
    /\ UNCHANGED <<env_vars, scan_root, focus_root, py_files, file_module_info,
                   module_to_file, symbol_to_file, focus_files, cursor, output, out_file,
                   first_out>>

\* main.py:109
SelectFocus ==
    /\ pc = "focus"
    /\ focus_files' = FocusFiles(files_data, focus_root)
    /\ cursor' = 1
    /\ pc' = "resolve"
    /\ UNCHANGED <<env_vars, scan_root, focus_root, py_files, file_module_info,
                   module_to_file, files_data, symbol_to_file, output, out_file,
                   first_out, error>>

\* main.py:147-152, one call of build_used_functions.  used_names is a set of
\* str: the order of its iteration depends on the hash seed of the process.
\* mutant of ResolveDefinition: a name defined in the file of the usage is
\* resolved to that file before any other
ResolveDefinition_preferring_own_file ==
    /\ pc = "resolve"
    /\ cursor <= Len(ResolveSteps(files_data))
    /\ LET step == ResolveSteps(files_data)[cursor]
           def_data == RecordAt(files_data, step)
           own == files_data[step.f].k
           own_first == [i \in 1..Len(symbol_to_file) |->
                           [k |-> symbol_to_file[i].k,
                            v |-> SelectSeq(symbol_to_file[i].v,
                                            LAMBDA en : en.file_path = own)
                                    \o SelectSeq(symbol_to_file[i].v,
                                                 LAMBDA en : en.file_path # own)]]
       IN \E names \in Orders(def_data.used_names) :
             files_data' = WithRecord(files_data, step,
                              build_used_functions(own_first, module_to_file,
                                                   focus_files, def_data, names))
    /\ cursor' = cursor + 1
    /\ UNCHANGED <<env_vars, pc, scan_root, focus_root, py_files, file_module_info,
                   module_to_file, symbol_to_file, focus_files, output, out_file,
                   first_out, error>>

\* mutant of ResolveDefinition: the index read with symbol_to_file[name], which
\* on a defaultdict makes an empty entry for a name that has none
ResolveDefinition_inserting_keys ==
    /\ pc = "resolve"
    /\ cursor <= Len(ResolveSteps(files_data))
    /\ LET step == ResolveSteps(files_data)[cursor]
           def_data == RecordAt(files_data, step)
       IN /\ \E names \in Orders(def_data.used_names) :
                /\ files_data' = WithRecord(files_data, step,
                                    build_used_functions(symbol_to_file, module_to_file,
                                                         focus_files, def_data, names))
                /\ symbol_to_file' =
                      symbol_to_file \o
                        [i \in 1..Len(SelectSeq(names, LAMBDA n : ~DictHas(symbol_to_file, n)))
                           |-> [k |-> SelectSeq(names, LAMBDA n : ~DictHas(symbol_to_file, n))[i],
                                v |-> <<>>]]
    /\ cursor' = cursor + 1
    /\ UNCHANGED <<env_vars, pc, scan_root, focus_root, py_files, file_module_info,
                   module_to_file, focus_files, output, out_file, first_out, error>>

ResolveDefinition ==
    /\ pc = "resolve"
    /\ cursor <= Len(ResolveSteps(files_data))
    /\ LET step == ResolveSteps(files_data)[cursor]
           def_data == RecordAt(files_data, step)
       IN \E names \in Orders(def_data.used_names) :
             files_data' = WithRecord(files_data, step,
                              build_used_functions(symbol_to_file, module_to_file,
                                                   focus_files, def_data, names))
    /\ cursor' = cursor + 1
    /\ UNCHANGED <<env_vars, pc, scan_root, focus_root, py_files, file_module_info,
                   module_to_file, symbol_to_file, focus_files, output, out_file,
                   first_out, error>>

\* main.py:154-174
AssembleOutput ==
    /\ pc = "resolve"
    /\ cursor > Len(ResolveSteps(files_data))
    /\ output' = BuildOutput(files_data, focus_files, file_module_info, scan_root, focus_root)
    /\ pc' = "write"
    /\ UNCHANGED <<env_vars, scan_root, focus_root, py_files, file_module_info,
                   module_to_file, files_data, symbol_to_file, focus_files, cursor,
                   out_file, first_out, error>>

\* main.py:176-181
WriteOutput ==
    /\ pc = "write"
    /\ out_file' = [exists |-> TRUE, content |-> output]
    /\ pc' = "done"
    /\ UNCHANGED <<env_vars, scan_root, focus_root, py_files, file_module_info,
                   module_to_file, files_data, symbol_to_file, focus_files, cursor,
                   output, first_out, error>>

\* main.py:176-180 when os.makedirs, open or the write raises OSError: nothing
\* in main() catches it, and the message of an OSError names the path
OutputWriteFails ==
    /\ pc = "write"
    /\ Raise("[Errno 13] Permission denied: '" \o argv.output \o "'")

\* The tool is run once more on the same files with the same arguments;
\* first_out keeps what the first run wrote.
RunAgain ==
    /\ pc = "done"
    /\ ~first_out.exists
    /\ first_out' = out_file
    /\ pc' = "start" /\ scan_root' = "" /\ focus_root' = ""
    /\ py_files' = <<>> /\ file_module_info' = <<>> /\ module_to_file' = <<>>
    /\ files_data' = <<>> /\ symbol_to_file' = <<>> /\ focus_files' = {}
    /\ cursor' = 0 /\ output' = NoOutput /\ error' = ""
    /\ UNCHANGED <<env_vars, out_file>>

Next ==
    \/ ParseArgs
    \/ ScanRootMissing \/ FocusRootMissing \/ FocusOutsideScan
    \/ GetPyFiles \/ BuildModuleInfo
    \/ AnalyzeFileOk \/ AnalyzeFileFails
    \/ IndexSymbols \/ NestMethods \/ SelectFocus
    \/ ResolveDefinition \/ AssembleOutput \/ WriteOutput \/ OutputWriteFails
    \/ RunAgain

Spec == Init /\ [][Next]_vars

----------------------------------------------------------------------------
(* SpecFiles: calls of analyze_file on several files, their visitor calls *)
(* taken in any order                                                     *)

\* from m import A as B
\* def f(): B()
AliasUser ==
    Module(<<ImportFrom("m", <<alias("A", "B")>>),
             FunctionDef("f", 2, 2, <<>>, <<Expr(Call(Name("B"), <<>>))>>, <<>>)>>)

\* def f(): B()
PlainUser ==
    Module(<<FunctionDef("f", 1, 1, <<>>, <<Expr(Call(Name("B"), <<>>))>>, <<>>)>>)

\* class C:
\*     def __init__(self): self.x = B()
Binder ==
    Module(<<ClassDef("C", 1, 2, <<>>,
                <<FunctionDef("__init__", 2, 2, <<"self">>,
                     <<Assign(<<SelfAttr("x")>>, Call(Name("B"), <<>>))>>, <<>>)>>,
                <<>>)>>)

\* class C:
\*     def go(self): self.x.run()
BoundUser ==
    Module(<<ClassDef("C", 1, 2, <<>>,
                <<FunctionDef("go", 2, 2, <<"self">>,
                     <<Expr(Call(Attribute(SelfAttr("x"), "run"), <<>>))>>, <<>>)>>,
                <<>>)>>)

SideTrees == {AliasUser, PlainUser, Binder, BoundUser}

InitFiles ==
    /\ WalkIdle
    /\ MainIdle

\* analyze_file up to analyzer = CodeAnalyzer(), for one more file
OpenFile ==
    /\ Len(walks) < MaxWalks
    /\ \E t \in SideTrees :
          walks' = Append(walks, [tree |-> t, az |-> StartWalk(t), steps |-> 0])
    /\ UNCHANGED <<walk_vars, fs, dir_order, argv, pc, scan_root, focus_root, py_files,
                   file_module_info, module_to_file, files_data, symbol_to_file,
                   focus_files, cursor, output, out_file, first_out, error>>

\* one visitor call or scope exit of one of the analyzers
VisitInFile ==
    /\ \E i \in 1..Len(walks) :
          /\ walks[i].az.todo # <<>>
          /\ walks' = [walks EXCEPT ![i].az = WalkStep(@), ![i].steps = @ + 1]
    /\ UNCHANGED <<walk_vars, fs, dir_order, argv, pc, scan_root, focus_root, py_files,
                   file_module_info, module_to_file, files_data, symbol_to_file,
                   focus_files, cursor, output, out_file, first_out, error>>

NextFiles == OpenFile \/ VisitInFile

SpecFiles == InitFiles /\ [][NextFiles]_vars

----------------------------------------------------------------------------
(* Claims about the walk (SpecWalk) *)

LastNode == walked[Len(walked)]

\* the node self.<attr>.<method>
IsSelfChain(n) ==
    /\ n.kind = "Attribute"
    /\ n.value.kind = "Attribute"
    /\ n.value.value.kind = "Name"
    /\ n.value.value.id = "self"

\* the class a generated assignment constructs (Mem is the name Cache is imported under)
ClassAssigned(n) == IF n = AssignStore THEN "Store" ELSE "Cache"

RECURSIVE LastAssigned(_)
\* the class of the latest self.db assignment among the visited nodes w, or NoName
LastAssigned(w) ==
    IF w = <<>> THEN NoName
    ELSE IF w[Len(w)].kind = "Assign" THEN ClassAssigned(w[Len(w)])
    ELSE LastAssigned(SubSeq(w, 1, Len(w) - 1))

\* the classes assigned to self.db anywhere in the class of a service tree
AssignedInClass(t) ==
    IF ~IsServiceTree(t) THEN {}
    ELSE {ClassAssigned(t.body[3].body[i].body[j]) :
            <<i, j>> \in {<<i, j>> \in (1..MaxStmts + 1) \X (1..MaxStmts + 1) :
                            /\ i <= Len(t.body[3].body)
                            /\ j <= Len(t.body[3].body[i].body)
                            /\ t.body[3].body[i].body[j].kind = "Assign"}}

\* the bases under which the definition being walked has recorded attribute attr
BasesRecording(attr) ==
    LET ucm == DictGet(az.definitions, TopScope(az)).used_classes_methods IN
    {ucm[i].k : i \in {i \in 1..Len(ucm) : attr \in ucm[i].v}}

\* C2 (as stated): in a class that assigns self.attr = ClassName() in some method,
\* every access self.attr.method, before or after the assignment, is recorded as
\* method used on ClassName.
C2_RecordedInAnyOrder ==
    (walked # <<>> /\ IsSelfChain(LastNode) /\ AssignedInClass(tree) # {})
        => BasesRecording(LastNode.attr) \cap AssignedInClass(tree) # {}

\* C2 (amended): an access self.attr.method is recorded as method used on the class
\* of the latest assignment self.attr = ClassName() visited before it (ClassName
\* resolved through the import aliases) and never on attr; an access visited
\* before any such assignment is recorded on no class.
C2_RecordedOnClassBoundBefore ==
    (walked # <<>> /\ IsSelfChain(LastNode)) =>
        LET bound == LastAssigned(SubSeq(walked, 1, Len(walked) - 1)) IN
        /\ LastNode.value.attr \notin BasesRecording(LastNode.attr)
        /\ bound # NoName => bound \in BasesRecording(LastNode.attr)
        /\ bound = NoName => BasesRecording(LastNode.attr) = {}

\* an access in run recorded on Cache, which __init__ assigned under the name Mem
C2_Witness ==
    /\ walked # <<>> /\ IsSelfChain(LastNode)
    /\ TopScope(az) = "Svc.run"
    /\ LastAssigned(SubSeq(walked, 1, Len(walked) - 1)) = "Cache"
    /\ BasesRecording("save") = {"Cache"}
    /\ \E i \in 1..Len(walked) : walked[i].kind = "FunctionDef" /\ walked[i].name = "__init__"

\* the class of the textually last self.db assignment of a service tree
FinalAssigned(t) ==
    LET last == t.body[3].body[Len(t.body[3].body)]
        at == {j \in 1..Len(last.body) : last.body[j].kind = "Assign"}
    IN IF at = {} THEN NoName
       ELSE ClassAssigned(last.body[CHOOSE j \in at : \A k \in at : k <= j])

\* self.db is assigned one class and then another in the last method
Reassigned(t) ==
    /\ IsServiceTree(t)
    /\ AssignedInClass(t) = {"Store", "Cache"}
    /\ Len(t.body[3].body) = 1

\* the binding table of a service tree holding class for self.db, or nothing
BindingTable(class) ==
    IF class = NoName THEN <<>> ELSE <<[k |-> <<"Svc", "db">>, v |-> class]>>

\* the last visit of a def name among the first n visited nodes, or 0
DefStart(n, name) ==
    LET at == {k \in 1..n : walked[k].kind = "FunctionDef" /\ walked[k].name = name}
    IN IF at = {} THEN 0 ELSE CHOOSE k \in at : \A j \in at : j <= k

\* the visits of self.db.<method> in the surviving definition of method name
AccessesIn(name) ==
    {n \in 1..Len(walked) :
        /\ IsSelfChain(walked[n])
        /\ DefStart(Len(walked), name) > 0
        /\ n > DefStart(Len(walked), name)
        /\ \A other \in MethodNames : DefStart(n, other) <= DefStart(n, name)}

\* the classes self.db was bound to when the accesses of method name were visited
BoundAtAccesses(name) ==
    {LastAssigned(SubSeq(walked, 1, n - 1)) : n \in AccessesIn(name)} \ {NoName}

\* C21 (as stated): when self.db is assigned A and later B in the same class,
\* the table ends with (Svc, db) -> B and every access self.db.m of the class,
\* one between the two assignments included, is recorded on B.
C21_AllOnLastBinding ==
    Reassigned(tree) =>
        /\ az.todo = <<>> => az.instance_attr_types = BindingTable(FinalAssigned(tree))
        /\ (walked # <<>> /\ IsSelfChain(LastNode)) =>
              BasesRecording(LastNode.attr) \subseteq {FinalAssigned(tree)}

\* C21 (amended): after every visit the binding table holds, for (Svc, db),
\* the class of the latest assignment visited so far and nothing else, so at
\* the end it holds the last assignment's class B alone; an access
\* self.db.m is recorded on the class the table held when the access was
\* visited: an access between the assignment of A and the assignment of B is
\* recorded on A, not on B.
C21_LastBindingKept ==
    IsServiceTree(tree) =>
        /\ az.instance_attr_types = BindingTable(LastAssigned(walked))
        /\ az.todo = <<>> =>
              \A name \in {n \in MethodNames : DictHas(az.definitions, "Svc." \o n)} :
                 KeySet(DictGet(az.definitions, "Svc." \o name).used_classes_methods)
                    \ {"self"} = BoundAtAccesses(name)

\* __init__ assigns Store, accesses self.db.save(), assigns Mem (Cache): the
\* table ends with Cache alone and the access stays recorded on Store
C21_Witness ==
    /\ az.todo = <<>>
    /\ tree = ServiceTree(<<[m |-> "__init__", s |-> AssignStore],
                            [m |-> "__init__", s |-> AccessSave],
                            [m |-> "__init__", s |-> AssignMem]>>)
    /\ az.instance_attr_types = BindingTable("Cache")
    /\ DictGet(DictGet(az.definitions, "Svc.__init__").used_classes_methods, "Store")
          = {"save"}
    /\ ~DictHas(DictGet(az.definitions, "Svc.__init__").used_classes_methods, "Cache")

IsDef(n) == n.kind \in {"ClassDef", "FunctionDef", "AsyncFunctionDef"}

RECURSIVE ChainOf(_)
\* a definition of a nest tree and the definitions nested in it, outermost first
ChainOf(d) ==
    <<d>> \o (IF IsDef(d.body[1]) THEN ChainOf(d.body[1]) ELSE <<>>)

\* the walk of a nest tree has reached its second top-level definition
InSibling == \E n \in 1..Len(walked) : IsDef(walked[n]) /\ walked[n].lineno = 20

\* the definitions of a nest tree whose bodies the walk is inside, outermost
\* first, when the next node is a statement self.x = B()
OpenDefs ==
    IF InSibling THEN <<tree.body[3]>>
    ELSE SubSeq(ChainOf(tree.body[2]), 1, Len(az.scopes))

\* the name of the innermost class among the open definitions, or NoName
EnclosingClass ==
    LET at == {i \in 1..Len(OpenDefs) : OpenDefs[i].kind = "ClassDef"}
    IN IF at = {} THEN NoName
       ELSE OpenDefs[CHOOSE i \in at : \A j \in at : j <= i].name

\* C22: the visit of self.x = B() binds (C, x) to B for the innermost class C
\* among the definitions open at the assignment and for no other class, and
\* binds nothing when no open definition is a class.
C22_NearestClassBound ==
    [][(IsNestTree(tree) /\ NextIs({"Assign"})) =>
          az'.instance_attr_types =
             IF EnclosingClass = NoName THEN az.instance_attr_types
             ELSE DictSet(az.instance_attr_types, <<EnclosingClass, "x">>, "B")]_vars

RECURSIVE Preorder(_, _)
RECURSIVE PreorderAll(_, _)
\* the classes and functions a node lies in (name and kind), outermost first,
\* for node and every node below it, in the order the walk visits them
Preorder(node, enclosing) ==
    <<enclosing>> \o
    (IF Descends(node)
     THEN PreorderAll(Children(node),
                      IF IsDef(node)
                      THEN Append(enclosing, [name |-> node.name, kind |-> node.kind])
                      ELSE enclosing)
     ELSE <<>>)

PreorderAll(nodes, enclosing) ==
    IF nodes = <<>> THEN <<>>
    ELSE Preorder(Head(nodes), enclosing) \o PreorderAll(Tail(nodes), enclosing)

\* the last component of a qualified name
BareName(key) == LET parts == RSplit1(key, ".") IN parts[Len(parts)]

\* the scope stack names, innermost last, the first definitions of defs
StackIsPrefixOf(defs) ==
    /\ Len(az.scopes) <= Len(defs)
    /\ \A i \in 1..Len(az.scopes) : BareName(az.scopes[i]) = defs[i].name

\* C25: the scope stack is empty before and after the walk; every name on it
\* is a key of the definitions table; when a node is about to be visited the
\* stack holds one name for each class or function the node lies in,
\* outermost first, so it is empty at every top-level statement and its top
\* names the innermost definition being walked; when a scope is about to be
\* left the stack is non-empty and holds definitions the last visited node
\* lies in (or is).
C25_ScopeStack ==
    LET enclosing == Preorder(tree, <<>>)
        last == walked[Len(walked)]
    IN
    /\ walked = <<>> => az.scopes = <<>>
    /\ az.todo = <<>> => az.scopes = <<>> /\ Len(walked) = Len(enclosing)
    /\ \A i \in 1..Len(az.scopes) : DictHas(az.definitions, az.scopes[i])
    /\ (az.todo # <<>> /\ Head(az.todo).op = "visit") =>
          /\ Len(az.scopes) = Len(enclosing[Len(walked) + 1])
          /\ StackIsPrefixOf(enclosing[Len(walked) + 1])
    /\ (az.todo # <<>> /\ Head(az.todo).op = "pop") =>
          /\ az.scopes # <<>>
          /\ StackIsPrefixOf(IF IsDef(last)
                             THEN Append(enclosing[Len(walked)],
                                         [name |-> last.name, kind |-> last.kind])
                             ELSE enclosing[Len(walked)])

\* inside class A: def f: class f of a nest tree, about to visit the innermost
\* self.x = B(): three names on the stack, the top naming the class f
C25_Witness ==
    /\ IsNestTree(tree)
    /\ NextIs({"Assign"})
    /\ az.scopes = <<"A", "A.f", "f">>
    /\ DictGet(az.definitions, "f").type = "class"
    /\ DictGet(az.definitions, "A.f").type = "function"

\* the definitions the node about to be visited lies in
EnclosingNext == Preorder(tree, <<>>)[Len(walked) + 1]

\* the key the definition about to be visited is to have: Class.name for a
\* function directly inside a class, the bare name otherwise
ExpectedKey ==
    LET outer == EnclosingNext IN
    IF /\ NextNode.kind \in {"FunctionDef", "AsyncFunctionDef"}
       /\ outer # <<>>
       /\ outer[Len(outer)].kind = "ClassDef"
    THEN outer[Len(outer)].name \o "." \o NextNode.name
    ELSE NextNode.name

\* C27: the visit of a class or function puts one record under its key,
\* Class.method for a function directly inside a class and the bare name for
\* every other function and every class, leaving every other key as it was;
\* a record already under that key is replaced by the new one, whose usage
\* sets are empty.
C27_OneRecordPerKey ==
    [][NextIs({"ClassDef", "FunctionDef", "AsyncFunctionDef"}) =>
          /\ DictHas(az'.definitions, ExpectedKey)
          /\ DictGet(az'.definitions, ExpectedKey).start_line = NextNode.lineno
          /\ DictGet(az'.definitions, ExpectedKey).used_names = {}
          /\ DictGet(az'.definitions, ExpectedKey).used_classes_methods = <<>>
          /\ \A key \in KeySet(az'.definitions) \cup KeySet(az.definitions) :
                key # ExpectedKey =>
                   /\ DictHas(az.definitions, key) /\ DictHas(az'.definitions, key)
                   /\ DictGet(az'.definitions, key) = DictGet(az.definitions, key)
          /\ \A i, j \in 1..Len(az'.definitions) :
                az'.definitions[i].k = az'.definitions[j].k => i = j]_vars

RECURSIVE Spine(_)
\* an expression and what it is an attribute of, down to the root
Spine(e) == <<e>> \o (IF e.kind = "Attribute" THEN Spine(e.value) ELSE <<>>)

RECURSIVE Callee(_)
\* what a decorator calls, the calls of calls included
Callee(d) == IF d.kind = "Call" THEN Callee(d.func) ELSE d

\* the names of a decorator: the attributes of its chain and the root name
DecoratorNames(d) ==
    LET sp == Spine(Callee(d)) IN
    {sp[i].attr : i \in {i \in 1..Len(sp) : sp[i].kind = "Attribute"}}
        \cup {sp[i].id : i \in {i \in 1..Len(sp) : sp[i].kind = "Name"}}

\* some decorator has a name that is a keyword, whatever its case
Flagged(decos) ==
    \E i \in 1..Len(decos) : \E n \in DecoratorNames(decos[i]) :
        Lower(n) \in API_DECORATOR_KEYWORDS

\* C8: a function or method is flagged is_api_endpoint exactly when one of its
\* decorators, its call layers peeled, has in its attribute chain or as its root
\* a name that is a keyword in any case; @app.route(...) flags, @staticmethod
\* does not; a class is never flagged.
C8_EndpointFlag ==
    /\ (walked # <<>> /\ LastNode.kind \in {"FunctionDef", "AsyncFunctionDef"}) =>
          LET flag == DictGet(az.definitions, TopScope(az)).is_api_endpoint IN
          /\ flag = Flagged(LastNode.decorator_list)
          /\ LastNode.decorator_list = <<Call(Attribute(Name("app"), "route"), <<Constant>>)>>
                => flag
          /\ LastNode.decorator_list = <<Name("staticmethod")>> => ~flag
    /\ \A i \in 1..Len(az.definitions) :
          az.definitions[i].v.type = "class" => ~az.definitions[i].v.is_api_endpoint
    /\ (az.todo = <<>> /\ IsDecoratedTree(tree)) =>
          LET expected == Flagged(tree.body[1].decorator_list) IN
          /\ DictGet(az.definitions, "view").is_api_endpoint = expected
          /\ DictGet(az.definitions, "Ctl.get").is_api_endpoint = expected

\* a method flagged by @Bp.GET alone, in a class carrying the same decorator
C8_Witness ==
    /\ az.todo = <<>>
    /\ tree = DecoratedTree(<<Attribute(Name("Bp"), "GET")>>)
    /\ DictGet(az.definitions, "Ctl.get").is_api_endpoint
    /\ ~DictGet(az.definitions, "Ctl").is_api_endpoint

\* the name a bare identifier stands for under the alias table so far: the
\* imported symbol for a name bound by from ... import, the identifier itself
\* otherwise
OriginOf(aliases, id) ==
    LET info == DictGetOr(aliases, id, [kind |-> "none"]) IN
    IF info.kind = "symbol" THEN info.symbol ELSE id

UsedNames(definitions, key) == DictGet(definitions, key).used_names

\* C19: the visit of a name in load context while a scope is open adds the
\* canonical name to the used names of the definition on top of the scope
\* stack and changes the used names of no other definition; the visit of a
\* name in store context, or of any name with no scope open, changes no
\* definition.
C19_NameReads ==
    [][NextIs({"Name"}) =>
          IF NextNode.ctx = "Load" /\ az.scopes # <<>>
          THEN /\ KeySet(az'.definitions) = KeySet(az.definitions)
               /\ \A key \in KeySet(az.definitions) :
                     UsedNames(az'.definitions, key) =
                        IF key = az.scopes[Len(az.scopes)]
                        THEN UsedNames(az.definitions, key)
                                \cup {OriginOf(az.aliases, NextNode.id)}
                        ELSE UsedNames(az.definitions, key)
          ELSE az'.definitions = az.definitions]_vars

\* Mem, imported as from cache import Cache as Mem, has just been read in
\* Svc.__init__ with the class Svc open below it: Cache is a used name of the
\* method and not of the class
C19_Witness ==
    /\ IsServiceTree(tree)
    /\ walked # <<>>
    /\ LastNode = Name("Mem")
    /\ az.scopes = <<"Svc", "Svc.__init__">>
    /\ "Cache" \in UsedNames(az.definitions, "Svc.__init__")
    /\ "Mem" \notin UsedNames(az.definitions, "Svc.__init__")
    /\ UsedNames(az.definitions, "Svc") = {}

NoBinding == [kind |-> "none", module |-> NoName, symbol |-> NoName]

\* what the i-th name of an import statement says about the identifier id:
\* import X as id, from M import N as id, from M import id, or nothing
\* (import X without as, a wildcard, another identifier)
BindingIn(node, i, id) ==
    LET al == node.names[i] IN
    IF node.kind = "Import" /\ al.asname = id /\ id # NoName
    THEN [kind |-> "module", module |-> al.name, symbol |-> NoName]
    ELSE IF /\ node.kind = "ImportFrom"
            /\ al.name # "*"
            /\ id = (IF al.asname # NoName THEN al.asname ELSE al.name)
    THEN [kind |-> "symbol", module |-> node.module, symbol |-> al.name]
    ELSE NoBinding

RECURSIVE LatestIn(_, _, _)
\* the last of the first i names of an import statement that binds id
LatestIn(node, i, id) ==
    IF i = 0 THEN NoBinding
    ELSE IF BindingIn(node, i, id) # NoBinding THEN BindingIn(node, i, id)
    ELSE LatestIn(node, i - 1, id)

RECURSIVE Latest(_, _)
\* the last import statement among the first n walked nodes that binds id
Latest(n, id) ==
    IF n = 0 THEN NoBinding
    ELSE LET node == walked[n]
             here == IF node.kind \in {"Import", "ImportFrom"}
                     THEN LatestIn(node, Len(node.names), id)
                     ELSE NoBinding
         IN IF here # NoBinding THEN here ELSE Latest(n - 1, id)

\* the identifiers of the walked trees, bound or not
Identifiers ==
    {"pt", "T", "Thing", "os", "sib", "star", "tmp", "*", "lib", "Mem", "Cache",
     "sb", "Store", "self", "app", "Bp"}

\* C20: after any number of visits, for every identifier: import X as Y has
\* put the module alias Y -> X in the alias table, from M import N as A the
\* symbol alias A -> (M, N), the later statement winning, and a wildcard or an
\* import without as has put nothing; a bare name is canonicalised to the
\* origin symbol N for a symbol alias and to itself otherwise (a module alias
\* included); the base of an attribute access is canonicalised to N for a
\* symbol alias, to the module X for a module alias, and to itself with no
\* alias.
C20_Canonical ==
    \A id \in Identifiers :
        LET b == Latest(Len(walked), id) IN
        /\ b.kind = "none" =>
              /\ ~DictHas(az.aliases, id)
              /\ _canonical_name(az, id) = id
              /\ _canonical_attr_base(az, id) = id
        /\ b.kind = "module" =>
              /\ DictHas(az.aliases, id)
              /\ DictGet(az.aliases, id) = [kind |-> "module", module |-> b.module]
              /\ _canonical_name(az, id) = id
              /\ _canonical_attr_base(az, id) = b.module
        /\ b.kind = "symbol" =>
              /\ DictHas(az.aliases, id)
              /\ DictGet(az.aliases, id) =
                    [kind |-> "symbol", symbol |-> b.symbol, module |-> b.module]
              /\ _canonical_name(az, id) = b.symbol
              /\ _canonical_attr_base(az, id) = b.symbol

\* the file of the five imports, with def use(): pt.run(); T.make(), walked
\* to the end: pt is a module alias, T a symbol alias, the wildcard and
\* import os left no entry, and use() records run on pkg.tools and make on
\* Thing
C20_Witness ==
    /\ az.todo = <<>>
    /\ tree = ImportTree(<<Expr(Call(Attribute(Name("pt"), "run"), <<>>)),
                           Expr(Call(Attribute(Name("T"), "make"), <<>>))>>)
    /\ KeySet(az.aliases) = {"pt", "T", "sib"}
    /\ _canonical_name(az, "T") = "Thing"
    /\ _canonical_name(az, "pt") = "pt"
    /\ _canonical_attr_base(az, "pt") = "pkg.tools"
    /\ _canonical_attr_base(az, "os") = "os"
    /\ DictGet(az.definitions, "use").used_classes_methods =
          <<[k |-> "pkg.tools", v |-> {"run"}], [k |-> "Thing", v |-> {"make"}]>>

\* what the import statements visited so far make of a bare name
BareUnder(binding, id) == IF binding.kind = "symbol" THEN binding.symbol ELSE id

\* what the import statements visited so far make of the base of an attribute
BaseUnder(binding, id) ==
    IF binding.kind = "symbol" THEN binding.symbol
    ELSE IF binding.kind = "module" THEN binding.module
    ELSE id

\* C30: a name read (or the base of an attribute access) inside a definition
\* is recorded in the form given by the latest import statement of that local
\* name visited before it, wherever in the file that import stands (module
\* level, or inside a function visited earlier); the visit of an import
\* statement changes nothing already recorded in any definition.
C30_AliasesInEffect ==
    [][/\ NextIs({"Import", "ImportFrom"}) => az'.definitions = az.definitions
       /\ (NextIs({"Name"}) /\ NextNode.ctx = "Load" /\ az.scopes # <<>>) =>
             UsedNames(az'.definitions, TopScope(az)) =
                UsedNames(az.definitions, TopScope(az))
                   \cup {BareUnder(Latest(Len(walked), NextNode.id), NextNode.id)}
       /\ (NextIs({"Attribute"}) /\ NextNode.value.kind = "Name" /\ az.scopes # <<>>) =>
             NextNode.attr \in
                DictGetOr(DictGet(az'.definitions, TopScope(az)).used_classes_methods,
                          BaseUnder(Latest(Len(walked), NextNode.value.id),
                                    NextNode.value.id),
                          {})]_vars

\* def use(): T(); import alt as T, then def after(): T(): use has recorded
\* Thing (from lib.things import Thing as T), after has recorded T (a module
\* alias since the import inside use)
C30_Witness ==
    /\ az.todo = <<>>
    /\ tree = ImportTree(<<Expr(Call(Name("T"), <<>>)), Import(<<alias("alt", "T")>>)>>)
    /\ DictGet(az.aliases, "T") = [kind |-> "module", module |-> "alt"]
    /\ UsedNames(az.definitions, "use") = {"Thing"}
    /\ UsedNames(az.definitions, "after") = {"T"}

----------------------------------------------------------------------------
(* Claims about a run of main() (Spec) *)

\* the focus root is the scan root or a directory below it
AtOrBelow(root, dir) == dir = root \/ StartsWith(dir, root \o "/")

ConfigErrors ==
    { "Scan root does not exist: " \o scan_root,
      "Focus root does not exist: " \o focus_root,
      "Focus root must be inside the scan root so dependencies can be resolved correctly." }

\* C6: when the focus root is neither the scan root nor below it (a sibling
\* such as /w/proj2 beside /w/proj included), the step after the arguments
\* are read ends the run with a configuration error, with no file
\* enumerated or analyzed and the output file as it was, and nothing
\* happens after that; a focus root equal to an existing scan root passes
\* the checks.
C6_FocusOutsideAborts ==
    [][/\ (pc = "check" /\ ~AtOrBelow(scan_root, focus_root)) =>
            /\ pc' = "aborted"
            /\ error' \in ConfigErrors
            /\ py_files' = <<>> /\ files_data' = <<>> /\ file_module_info' = <<>>
            /\ out_file' = out_file
       /\ (pc = "check" /\ focus_root = scan_root /\ isdir(fs, scan_root)) =>
            pc' = "modules" /\ error' = ""
       /\ pc # "aborted"]_vars

C6_Witness ==
    /\ pc = "aborted"
    /\ scan_root = "/w/proj" /\ focus_root = "/w/proj2"
    /\ error = "Focus root must be inside the scan root so dependencies can be resolved correctly."
    /\ py_files = <<>> /\ files_data = <<>>
    /\ out_file = StaleFile

\* the files of the output, under their absolute paths
OutPath(file_path) == relpath(file_path, dirname(scan_root))

\* the path relative to the scan root, its components joined by '.', less the
\* final .py
DottedName(file_path) ==
    LET rel == relpath(file_path, scan_root) IN
    Join(Split(SubSeq(rel, 1, Len(rel) - 3), "/"), ".")

\* C10 (as stated): every scanned file's module name, in the module info, the
\* module map, the display string and file_meta, is the dotted form of its
\* path relative to the scan root with only the final .py removed, whatever
\* the names of the components.
C10_ModuleIsDottedPath ==
    /\ pc \notin {"start", "check", "modules", "aborted"} =>
          \A i \in 1..Len(py_files) :
              LET file_path == py_files[i] IN
              /\ DictGet(file_module_info, file_path).module = DottedName(file_path)
              /\ DictGet(file_module_info, file_path).display
                    = "from " \o DottedName(file_path)
              /\ DictHas(module_to_file, DottedName(file_path))
    /\ pc = "done" =>
          \A i \in 1..Len(py_files) :
              DictHas(output.files, OutPath(py_files[i])) =>
                  DictGet(output.file_meta, OutPath(py_files[i])).module
                      = DottedName(py_files[i])

\* the files, in the order of files_data, whose table has the key name
Definers(name) ==
    LET defining == SelectSeq(files_data, LAMBDA e : DictHas(e.v, name)) IN
    [i \in 1..Len(defining) |->
        [file_path |-> defining[i].k,
         display |-> "from " \o DictGet(file_module_info, defining[i].k).module]]

\* the keys of the flat definition tables
TableKeys == UNION {KeySet(files_data[i].v) : i \in 1..Len(files_data)}

\* the methods of the flat tables, as <<class, method>>
MethodKeys == {Split1(k, ".") : k \in {n \in TableKeys : Contains(n, ".")}}

\* C9 (as stated): once the index is built, every class and top-level
\* function is indexed under its name and every method under both
\* Class.method and its bare name, each with the files defining it.
C9_MethodsUnderBareName ==
    pc = "nest" =>
        /\ \A name \in TableKeys : DictGetOr(symbol_to_file, name, <<>>) = Definers(name)
        /\ \A m \in MethodKeys :
              /\ DictHas(symbol_to_file, m[2])
              /\ \A e \in SeqSet(Definers(m[1] \o "." \o m[2])) :
                    e \in SeqSet(DictGet(symbol_to_file, m[2]))

\* C9 (amended): once the index is built, its keys are exactly the keys of
\* the flat definition tables, each mapped to the files whose table has that
\* key, in the order the files were analyzed, with the display 'from
\* <module>'; a method is indexed under Class.method only, so its bare name
\* is a key only when some table has a class or function of that name.
C9_IndexedByTableKey ==
    pc = "nest" =>
        /\ KeySet(symbol_to_file) = TableKeys
        /\ \A name \in TableKeys : DictGet(symbol_to_file, name) = Definers(name)
        /\ \A m \in MethodKeys :
              /\ DictHas(symbol_to_file, m[1] \o "." \o m[2])
              /\ DictHas(symbol_to_file, m[2]) <=> m[2] \in TableKeys

C9_Witness ==
    /\ pc = "nest"
    /\ DictHas(symbol_to_file, "Thing.bar")
    /\ ~DictHas(symbol_to_file, "bar")
    /\ Len(DictGet(symbol_to_file, "Thing")) = 2

MainPy == "/w/proj/app/main.py"

ThingsPy == "/w/proj/lib/things.py"

AltPy == "/w/proj/app/alt.py"

\* the files whose nested table has the class or function name
DefinedIn(name) ==
    {files_data[i].k : i \in {j \in 1..Len(files_data) : DictHas(files_data[j].v, name)}}

\* the analyzed files at or below the focus root
InFocus(path) == path \in KeySet(files_data) /\ Under(focus_root, path)

InFocusDefiners(name) == {f \in DefinedIn(name) : InFocus(f)}

DisplayOf(path) == "from " \o DictGet(file_module_info, path).module

\* no entry of used_functions
NoRef == SimpleRef(NoName)

\* C4: at every call of build_used_functions, a name the definition uses, or
\* a base it uses attributes of, that is defined in exactly two scanned files
\* of which exactly one lies in focus gets an entry whose display is that of
\* the in-focus file, whatever the order of the files.
C4_ResolvesInFocus ==
    [][(pc = "resolve" /\ cursor <= Len(ResolveSteps(files_data))) =>
        LET step == ResolveSteps(files_data)[cursor]
            before == RecordAt(files_data, step)
            after == RecordAt(files_data', step)
            bases == KeySet(before.used_classes_methods)
            split(name) == /\ Cardinality(DefinedIn(name)) = 2
                           /\ Cardinality(InFocusDefiners(name)) = 1
            display(name) == DisplayOf(CHOOSE f \in InFocusDefiners(name) : TRUE)
        IN /\ \A name \in before.used_names \ bases :
                 split(name) =>
                    DictGetOr(after.used_functions, name, NoRef) = SimpleRef(display(name))
           /\ \A base \in bases :
                 split(base) =>
                    DictGetOr(after.used_functions, base, NoRef)
                        = GroupedRef(display(base),
                                     Sorted(DictGet(before.used_classes_methods, base)))
      ]_vars

\* used_functions of a definition of a file, as written to the output
UsedBy(path, def_name) ==
    DictGet(DictGet(out_file.content.files, OutPath(path)), def_name).used_functions

\* position of a file in the enumeration
Rank(path) == CHOOSE i \in 1..Len(py_files) : py_files[i] = path

C4_Witness ==
    /\ pc = "done"
    /\ focus_root = "/w/proj/app"
    /\ Paths(fs) = {ThingsPy, AltPy, MainPy}
    /\ DefinedIn("Thing") = {ThingsPy, AltPy}
    /\ Rank(ThingsPy) < Rank(AltPy)
    /\ DictGet(UsedBy(MainPy, "run"), "Thing") = SimpleRef("from app.alt")
    /\ DictGet(UsedBy(MainPy, "load"), "Thing") = GroupedRef("from app.alt", <<"bar">>)

\* C3 (as stated): with 'from lib.things import Thing as T' in main.py, the
\* T() in make is written under the key Thing with the display of lib.things
\* whenever lib/things.py is in focus, other in-focus definitions of Thing
\* notwithstanding.
C3_DisplayOfImportedModule ==
    (pc = "done" /\ InFocus(MainPy) /\ InFocus(ThingsPy)) =>
        /\ ~DictHas(UsedBy(MainPy, "make"), "T")
        /\ DictGetOr(UsedBy(MainPy, "make"), "Thing", NoRef) = SimpleRef("from lib.things")

\* the first file of the enumeration that defines name and lies in focus
FirstInFocus(name) ==
    LET first == CHOOSE i \in 1..Len(py_files) :
                    /\ py_files[i] \in InFocusDefiners(name)
                    /\ \A j \in 1..(i - 1) : py_files[j] \notin InFocusDefiners(name)
    IN py_files[first]

\* C3 (amended): the T() in make is written under the key Thing, never T,
\* with the display of the first file of the enumeration that defines Thing
\* and lies in focus; that is the display of lib.things exactly when no
\* other in-focus file defining Thing was enumerated before lib/things.py.
C3_DisplayOfFirstInFocus ==
    (pc = "done" /\ InFocus(MainPy) /\ InFocus(ThingsPy)) =>
        LET entry == DictGetOr(UsedBy(MainPy, "make"), "Thing", NoRef) IN
        /\ ~DictHas(UsedBy(MainPy, "make"), "T")
        /\ entry = SimpleRef(DisplayOf(FirstInFocus("Thing")))
        /\ entry = SimpleRef("from lib.things")
             <=> \A f \in InFocusDefiners("Thing") : Rank(ThingsPy) <= Rank(f)

C3_Witness ==
    /\ pc = "done"
    /\ InFocus(MainPy) /\ InFocus(ThingsPy) /\ InFocus(AltPy)
    /\ Rank(AltPy) < Rank(ThingsPy)
    /\ DictGet(UsedBy(MainPy, "make"), "Thing") = SimpleRef("from app.alt")

\* C1 (as stated): with only lib/things.py (class Thing with method bar) and
\* main.py (run calls Thing().bar()) scanned and both in focus, run's
\* used_functions has under Thing the grouped entry
\* {file: 'from lib.things', methods: ['bar']}.
C1_GroupedEntry ==
    (pc = "done" /\ Paths(fs) = {ThingsPy, MainPy} /\ InFocus(MainPy) /\ InFocus(ThingsPy)) =>
        DictGetOr(UsedBy(MainPy, "run"), "Thing", NoRef)
            = GroupedRef("from lib.things", <<"bar">>)

\* C1 (amended): in that run, run's used_functions is the one entry Thing
\* with the plain display string 'from lib.things': the attribute of a call
\* result is recorded on no base.  The grouped entry is what load gets, where
\* bar is read from the name Thing itself.
C1_PlainEntry ==
    (pc = "done" /\ Paths(fs) = {ThingsPy, MainPy} /\ InFocus(MainPy) /\ InFocus(ThingsPy)) =>
        /\ UsedBy(MainPy, "run") = <<[k |-> "Thing", v |-> SimpleRef("from lib.things")]>>
        /\ DictGetOr(UsedBy(MainPy, "load"), "Thing", NoRef)
              = GroupedRef("from lib.things", <<"bar">>)

C1_Witness ==
    /\ pc = "done"
    /\ Paths(fs) = {ThingsPy, MainPy}
    /\ focus_files = {ThingsPy, MainPy}
    /\ DictGet(UsedBy(MainPy, "run"), "Thing") = SimpleRef("from lib.things")

\* C7 (as stated): a second run on the same files, with the same roots and
\* the same enumeration order, writes the very output the first run wrote,
\* the keys of every used_functions map in the same order.
C7_RunsAgree ==
    (pc = "done" /\ first_out.exists) => out_file = first_out

\* the files whose analysis fails
Failing == {f \in fs : ~analyze_file(f.src).ok}

\* main() from the enumeration to the output, on files enumerated in order,
\* with the roots of this run and every set iterated in sorted order
RunOn(files, order) ==
    LET py == get_py_files(order, scan_root)
        info == ModuleInfo(py, scan_root, 1,
                           [file_module_info |-> <<>>, module_to_file |-> <<>>])
        flat == AnalyzeAll(files, py, 1, <<>>)
        index == BuildSymbolIndex(flat, info.file_module_info)
        nested == NestAll(flat, 1).data
        focus == FocusFiles(nested, focus_root)
        resolved == ResolveAll(index, info.module_to_file, focus, nested, 1)
    IN BuildOutput(resolved, focus, info.file_module_info, scan_root, focus_root)

\* a dict with its keys in sorted order
SortedDict(d) ==
    LET keys == Sorted(KeySet(d)) IN
    [i \in 1..Len(keys) |-> [k |-> keys[i], v |-> DictGet(d, keys[i])]]

SortUsed(rec) == [rec EXCEPT !.used_functions = SortedDict(rec.used_functions)]

\* the files of an output, every used_functions with its keys in sorted order
Unordered(out) ==
    [f \in 1..Len(out.files) |->
        [k |-> out.files[f].k,
         v |-> [d \in 1..Len(out.files[f].v) |->
                  LET rec == out.files[f].v[d].v IN
                  [k |-> out.files[f].v[d].k,
                   v |-> IF "methods" \in DOMAIN rec
                         THEN [SortUsed(rec) EXCEPT
                                 !.methods = [m \in 1..Len(rec.methods) |->
                                                [k |-> rec.methods[m].k,
                                                 v |-> SortUsed(rec.methods[m].v)]]]
                         ELSE SortUsed(rec)]]]]

\* C5 (as stated): when files of the scan fail to be analyzed, the run that
\* completes has written its output; a failing file has no definitions, no
\* entry in the symbol index and no key in files or file_meta; and what is
\* written for the other files is what a run without the failing files
\* writes (the order of the keys of used_functions left aside).
C5_FailingFilesIsolated ==
    (pc = "done" /\ Failing # {}) =>
        /\ out_file = [exists |-> TRUE, content |-> output]
        /\ \A f \in Failing :
              /\ ~DictHas(files_data, f.path)
              /\ ~DictHas(output.files, OutPath(f.path))
              /\ ~DictHas(output.file_meta, OutPath(f.path))
              /\ \A i \in 1..Len(symbol_to_file) :
                    \A e \in SeqSet(symbol_to_file[i].v) : e.file_path # f.path
        /\ LET without == RunOn(fs \ Failing,
                                SelectSeq(dir_order, LAMBDA q : q \notin Paths(Failing)))
           IN /\ Unordered(output) = Unordered(without)
              /\ output.file_meta = without.file_meta

ModPy == "/w/proj/mod.py"

ModInitPy == "/w/proj/mod/__init__.py"

\* the entries of the index for name whose file is analyzed and at or below
\* the focus root, in index order
InFocusEntries(name) ==
    SelectSeq(DictGetOr(symbol_to_file, name, <<>>), LAMBDA en : InFocus(en.file_path))

\* the entry the preference order picks for name
Preferred(name, preferred_file) ==
    LET candidates == InFocusEntries(name)
        pinned == SelectSeq(candidates, LAMBDA en : en.file_path = preferred_file)
    IN IF preferred_file # NoName /\ pinned # <<>> THEN pinned[1]
       ELSE IF candidates # <<>> THEN candidates[1]
       ELSE NoEntry

\* C11: at every call of build_used_functions, resolve_symbol gives, for
\* every indexed or unknown name and every preferred file (or none), the
\* entry of the preferred file when that file is in focus and defines the
\* name, else the first entry of the index in focus, else nothing; the
\* definition's used_functions gets a key for each used name that has an
\* in-focus entry and for no name without one, and the run goes on.
C11_PreferenceOrder ==
    [][(pc = "resolve" /\ cursor <= Len(ResolveSteps(files_data))) =>
        LET step == ResolveSteps(files_data)[cursor]
            before == RecordAt(files_data, step)
            after == RecordAt(files_data', step)
        IN /\ \A name \in KeySet(symbol_to_file) \cup {"absent"} :
                 \A preferred_file \in SeqSet(py_files) \cup {NoName} :
                    resolve_symbol(symbol_to_file, focus_files, name, preferred_file)
                        = Preferred(name, preferred_file)
           /\ \A name \in before.used_names :
                 DictHas(after.used_functions, name) <=> InFocusEntries(name) # <<>>
           /\ \A name \in KeySet(after.used_functions) : InFocusEntries(name) # <<>>
           /\ pc' = "resolve" /\ error' = ""
      ]_vars

C11_Witness ==
    /\ pc = "done"
    /\ Paths(fs) = {MainPy, ModPy, ModInitPy}
    /\ InFocus(ModPy) /\ InFocus(ModInitPy)
    /\ InFocusEntries("helper")[1].file_path = ModPy
    /\ DictGet(UsedBy(MainPy, "load"), "helper") = SimpleRef("from mod.__init__")
    /\ DictGet(UsedBy(MainPy, "make"), "helper") = SimpleRef("from mod")
    /\ ~DictHas(UsedBy(MainPy, "make"), "Thing")

\* the flat table the extractor gives for a file of the scan
Extracted(path) == analyze_file(SrcOf(fs, path)).definitions

\* the table written to the output for a file
Emitted(path) == DictGet(out_file.content.files, OutPath(path))

\* the files written to the output
EmittedFiles == {q \in Paths(fs) : DictHas(out_file.content.files, OutPath(q))}

\* the fields of an emitted function or method
RecordFields == {"args", "start_line", "end_line", "is_api_endpoint", "used_functions"}

\* an emitted record has the fields of its kind and keeps the span and the
\* endpoint flag of the extracted record
EmittedFrom(rec, raw, fields) ==
    /\ DOMAIN rec = fields
    /\ rec.start_line = raw.start_line /\ rec.end_line = raw.end_line
    /\ rec.is_api_endpoint = raw.is_api_endpoint

\* C12: in the written output, for every emitted file, a method Class.m of
\* the extracted table is found once, under the key m of the methods of its
\* class, and not at the top level; classes and free functions are the
\* top-level entries; every record has used_functions, start_line, end_line
\* and is_api_endpoint and none of used_names, used_classes_methods, type.
C12_NestedAndStripped ==
    pc = "done" =>
        \A path \in EmittedFiles :
            LET raw == Extracted(path)
                out == Emitted(path)
                methods == {k \in KeySet(raw) : Contains(k, ".")}
            IN /\ KeySet(out) = KeySet(raw) \ methods
               /\ Len(out) = Cardinality(KeySet(out))
               /\ \A k \in KeySet(out) :
                     IF DictGet(raw, k).type = "class"
                     THEN /\ EmittedFrom(DictGet(out, k), DictGet(raw, k),
                                         RecordFields \cup {"methods"})
                          /\ KeySet(DictGet(out, k).methods)
                                = {Split1(m, ".")[2] : m \in {n \in methods : Split1(n, ".")[1] = k}}
                          /\ Len(DictGet(out, k).methods)
                                = Cardinality(KeySet(DictGet(out, k).methods))
                     ELSE EmittedFrom(DictGet(out, k), DictGet(raw, k), RecordFields)
               /\ \A m \in methods :
                     LET class_name == Split1(m, ".")[1]
                         method_name == Split1(m, ".")[2]
                     IN /\ DictHas(out, class_name)
                        /\ DictHas(DictGet(out, class_name).methods, method_name)
                        /\ EmittedFrom(DictGet(DictGet(out, class_name).methods, method_name),
                                       DictGet(raw, m), RecordFields)

C12_Witness ==
    /\ pc = "done"
    /\ {ThingsPy, MainPy} \subseteq EmittedFiles
    /\ KeySet(Emitted(ThingsPy)) = {"Thing"}
    /\ KeySet(DictGet(Emitted(ThingsPy), "Thing").methods) = {"bar"}
    /\ KeySet(Emitted(MainPy)) = {"run", "make", "load", "both"}
    /\ "type" \notin DOMAIN DictGet(Emitted(MainPy), "run")

\* a path below the parent of the scan root, relative to that parent
BelowParent(path) == SubSeq(path, Len(dirname(scan_root)) + 2, Len(path))

\* C13: once the focus set is computed in a run that passed the checks, it
\* is a set of analyzed files, these are enumerated files, and these are
\* files below the scan root; the focus set is the analyzed files below the
\* focus root; the keys of files and of file_meta in the output are, each
\* once, the focus files' paths relative to the parent of the scan root,
\* and no file outside the focus root has a key.
C13_FocusSetEmitted ==
    /\ pc \in {"resolve", "write", "done"} =>
          /\ focus_files \subseteq KeySet(files_data)
          /\ KeySet(files_data) \subseteq SeqSet(py_files)
          /\ SeqSet(py_files) \subseteq {q \in Paths(fs) : Under(scan_root, q)}
          /\ focus_files = {q \in KeySet(files_data) : Under(focus_root, q)}
    /\ pc \in {"write", "done"} =>
          /\ KeySet(output.files) = {BelowParent(q) : q \in focus_files}
          /\ KeySet(output.file_meta) = KeySet(output.files)
          /\ Len(output.files) = Cardinality(focus_files)
          /\ Len(output.file_meta) = Cardinality(focus_files)
          /\ \A q \in Paths(fs) :
                ~Under(focus_root, q) => BelowParent(q) \notin KeySet(output.files)
          /\ \A k \in KeySet(output.files) : ~Contains(k, "//") /\ ~StartsWith(k, "/")
    /\ pc = "done" => out_file.content = output

C13_Witness ==
    /\ pc = "done"
    /\ scan_root = "/w/proj" /\ focus_root = "/w/proj/app"
    /\ Paths(fs) = {ThingsPy, MainPy, ModInitPy}
    /\ KeySet(files_data) = {ThingsPy, MainPy}
    /\ focus_files = {MainPy}
    /\ KeySet(out_file.content.files) = {"proj/app/main.py"}
    /\ KeySet(out_file.content.file_meta) = {"proj/app/main.py"}

\* C14 (as stated): when a run has ended with an error, the message names
\* the offending path: the scan root when it is missing, else the focus root
\* when it is missing, else one of the two roots when the focus root is not
\* inside the scan root, else (the output could not be written) the output
\* path.
C14_MessageNamesPath ==
    pc = "aborted" =>
        IF ~isdir(fs, scan_root) THEN Contains(error, scan_root)
        ELSE IF ~isdir(fs, focus_root) THEN Contains(error, focus_root)
        ELSE IF ~AtOrBelow(scan_root, focus_root)
             THEN Contains(error, focus_root) \/ Contains(error, scan_root)
             ELSE Contains(error, argv.output)

\* the attributes a definition uses on base and in no other way
OnlyOn(def_data, base) ==
    {attr \in DictGet(def_data.used_classes_methods, base) :
        /\ attr \notin def_data.used_names
        /\ attr \notin KeySet(def_data.used_classes_methods)
        /\ \A other \in KeySet(def_data.used_classes_methods) \ {base} :
              attr \notin DictGet(def_data.used_classes_methods, other)}

\* what build_used_functions leaves for a base that is no in-focus symbol:
\* no entry for the base; when the per-attribute path is taken, one plain
\* entry for each attribute that resolves with module_file preferred, and
\* none for the other attributes; when it is not taken, no entry at all
PerAttribute(before, after, base, module_file, taken) ==
    /\ ~DictHas(after.used_functions, base)
    /\ \A attr \in OnlyOn(before, base) :
          IF taken /\ Preferred(attr, module_file) # NoEntry
          THEN DictGetOr(after.used_functions, attr, NoRef)
                  = SimpleRef(Preferred(attr, module_file).display)
          ELSE ~DictHas(after.used_functions, attr)

\* the bases of a definition that have no in-focus entry in the index
UnresolvedBases(def_data) ==
    {base \in KeySet(def_data.used_classes_methods) : InFocusEntries(base) = <<>>}

MyInitPy == "/w/proj/app/my__init__.py"

\* the keys of the module map, other than its own module name, that lead to a file
PackageNames(path) ==
    {k \in KeySet(module_to_file) :
        /\ DictGet(module_to_file, k) = path
        /\ k # DictGet(file_module_info, path).module}

\* the directory of a file relative to the scan root, its components joined by '.'
DottedDir(path) ==
    Join(Split(SubSeq(dirname(path), Len(scan_root) + 2, Len(dirname(path))), "/"), ".")

\* C16 (as stated): once the module map is built, a file has a package name
\* registered for it exactly when it is an __init__.py in a subdirectory of
\* the scan root, and the name is then the dotted path of its directory
\* relative to the scan root.
C16_PackagesOfAggregators ==
    pc \notin {"start", "check", "modules"} =>
        \A i \in 1..Len(py_files) :
            PackageNames(py_files[i])
                = IF basename(py_files[i]) = "__init__.py" /\ dirname(py_files[i]) # scan_root
                  THEN {DottedDir(py_files[i])}
                  ELSE {}

\* the records of files_data that build_used_functions has been called on
Resolved(data) ==
    {step \in SeqSet(ResolveSteps(data)) : "used_functions" \in DOMAIN RecordAt(data, step)}

\* the .py files below the scan root
ScanUniverse == {q \in Paths(fs) : Under(scan_root, q) /\ EndsWith(q, ".py")}

\* every file of the scan has been through analyze_file
ExtractionFinished ==
    \A q \in ScanUniverse : q \in KeySet(files_data) <=> analyze_file(SrcOf(fs, q)).ok

\* the index has, for every name extracted from an analyzed file, the files
\* that define it, in the order of the enumeration
IndexComplete ==
    /\ KeySet(symbol_to_file) = UNION {KeySet(Extracted(q)) : q \in KeySet(files_data)}
    /\ \A name \in KeySet(symbol_to_file) :
          LET entries == DictGet(symbol_to_file, name) IN
          [i \in 1..Len(entries) |-> entries[i].file_path]
              = SelectSeq(py_files, LAMBDA q : /\ q \in KeySet(files_data)
                                               /\ DictHas(Extracted(q), name))

\* C17: a step that resolves the usages of a definition is taken only when
\* every file of the scan has been analyzed and the index holds every
\* extracted name, and from the first such step to the end of the run the
\* index does not change.
C17_ResolveAfterIndex ==
    [][/\ Resolved(files_data') # Resolved(files_data) /\ Resolved(files_data') # {} =>
            ExtractionFinished /\ IndexComplete /\ symbol_to_file' = symbol_to_file
       /\ Resolved(files_data) # {} /\ pc' # "start" => symbol_to_file' = symbol_to_file
      ]_vars

C17_Witness ==
    /\ pc = "resolve"
    /\ Cardinality(Resolved(files_data)) = 1
    /\ Cardinality(ScanUniverse) = 3
    /\ Cardinality(KeySet(files_data)) = 2
    /\ ExtractionFinished /\ IndexComplete
    /\ Len(DictGetOr(symbol_to_file, "helper", <<>>)) = 2

\* the next step resolves the usages of one definition
Resolving == pc = "resolve" /\ cursor <= Len(ResolveSteps(files_data))

\* the record of the definition the next step resolves
BeingResolved == RecordAt(files_data, ResolveSteps(files_data)[cursor])

\* C23: when the usages of a definition are resolved, every base it has
\* recorded attributes on and that resolves to an in-focus symbol gets, under
\* its own name, the grouped entry of that symbol's display and the sorted
\* attributes recorded on the base, whatever else the definition uses.
C23_GroupedPerBase ==
    [][Resolving =>
          LET after == RecordAt(files_data', ResolveSteps(files_data)[cursor]) IN
          \A base \in KeySet(BeingResolved.used_classes_methods) :
              Preferred(base, NoName) # NoEntry =>
                  DictGetOr(after.used_functions, base, NoRef) =
                     GroupedRef(Preferred(base, NoName).display,
                                Sorted(DictGet(BeingResolved.used_classes_methods, base)))]_vars

\* the names looked up in a run: those defined or used in the files, and one
\* that is neither
LookedUp == {"Thing", "helper", "mod", "run", "bar", "T", "nowhere"}

\* C24: the resolution of a definition's usages leaves the symbol index (an
\* undefined name looked up gets no key), the module map and the focus set
\* as they were; so every name, with every preferred file or none, resolves
\* after the step to the entry it resolved to before it, and an undefined
\* name to none.
C24_LookupOnly ==
    [][Resolving =>
          /\ symbol_to_file' = symbol_to_file
          /\ module_to_file' = module_to_file
          /\ focus_files' = focus_files
          /\ \A name \in LookedUp : \A preferred_file \in Paths(fs) \cup {NoName} :
                /\ resolve_symbol(symbol_to_file', focus_files', name, preferred_file)
                      = resolve_symbol(symbol_to_file, focus_files, name, preferred_file)
                /\ name \notin KeySet(symbol_to_file) =>
                      /\ name \notin KeySet(symbol_to_file')
                      /\ resolve_symbol(symbol_to_file', focus_files', name, preferred_file)
                            = NoEntry]_vars

\* load of app/main.py, which reads the name mod, has been resolved and the
\* next definition is about to be: mod, defined nowhere, is no key of the index
C24_Witness ==
    /\ Resolving
    /\ DictHas(files_data, MainPy)
    /\ "used_functions" \in DOMAIN DictGet(DictGet(files_data, MainPy), "load")
    /\ "used_functions" \notin DOMAIN DictGet(DictGet(files_data, MainPy), "both")
    /\ "mod" \notin KeySet(symbol_to_file)
    /\ "Thing" \in KeySet(symbol_to_file)

JobPy == "/w/proj/app/job.py"

\* every file under the scan root parses
AllParse == \A f \in fs : Under(scan_root, f.path) => f.src.ok

\* C26: once the files are analysed, a run in which every scanned file parsed
\* is never ended by an error of the stages that follow (index, nesting,
\* focus, resolution, assembly): only the writing of the output can fail.
C26_NoErrorAfterExtraction ==
    (pc = "aborted" /\ AllParse /\ error \notin ConfigErrors) =>
        error = "[Errno 13] Permission denied: '" \o argv.output \o "'"

\* every definition of the run has its usages resolved
AllResolved == pc \in {"assemble", "write", "done"}

\* the key under which the extractor holds the definition of a step
StepKey(step) ==
    LET def == files_data[step.f].v[step.d] IN
    IF step.m = 0 THEN def.k ELSE def.k \o "." \o def.v.methods[step.m].k

\* what the extractor recorded for the definition of a step
RawOf(step) == DictGet(Extracted(files_data[step.f].k), StepKey(step))

\* the names a definition reads that are neither a base it reads attributes
\* of nor an attribute it reads
BareOnly(step) ==
    LET ucm == RawOf(step).used_classes_methods IN
    RawOf(step).used_names \ (KeySet(ucm) \cup UNION {ucm[i].v : i \in 1..Len(ucm)})

C29_EntriesPointIntoFocus ==
    \A step \in Resolved(files_data) :
        LET used_functions == RecordAt(files_data, step).used_functions IN
        \A i \in 1..Len(used_functions) :
            \E path \in KeySet(files_data) :
                /\ analyze_file(SrcOf(fs, path)).ok
                /\ path \in focus_files
                /\ Under(focus_root, path)
                /\ DisplayOf(path) = used_functions[i].v.file
                /\ DictHas(Extracted(path), used_functions[i].k)

\* scan /w/proj, focus /w/proj/app, with app/main.py, app/alt.py and
\* lib/things.py: every Thing entry of main.py shows app/alt.py, the one
\* definer in focus, and load's is grouped
C29_Witness ==
    /\ pc = "done"
    /\ Paths(fs) = {ThingsPy, MainPy, AltPy}
    /\ focus_files = {MainPy, AltPy}
    /\ UsedBy(MainPy, "run") = <<[k |-> "Thing", v |-> SimpleRef("from app.alt")]>>
    /\ DictGet(UsedBy(MainPy, "load"), "Thing") = GroupedRef("from app.alt", <<"bar">>)

----------------------------------------------------------------------------
(* Claims about analyze_file calls side by side (SpecFiles) *)

RECURSIVE Alone(_, _)
\* the analyzer of a tree walked on its own, after n steps
Alone(t, n) ==
    IF n = 0 THEN [NewAnalyzer EXCEPT !.todo = <<VisitItem(t)>>]
    ELSE WalkStep(Alone(t, n - 1))

\* C18: whatever the order in which the visitor calls of the files in
\* progress are taken, each file's analyzer (scope stack, definitions, alias
\* table, instance-attribute bindings) is at every moment what it is when
\* the file is walked alone, and so is the table analyze_file returns.
C18_FilesIndependent ==
    \A i \in 1..Len(walks) :
        /\ walks[i].az = Alone(walks[i].tree, walks[i].steps)
        /\ walks[i].az.todo = <<>> =>
              walks[i].az.definitions = analyze_file(Parses(walks[i].tree)).definitions

C18_Witness ==
    /\ Len(walks) = 2
    /\ walks[1].tree = AliasUser /\ walks[2].tree = PlainUser
    /\ walks[1].az.todo = <<>> /\ walks[2].az.todo = <<>>
    /\ DictHas(walks[1].az.aliases, "B") /\ walks[2].az.aliases = <<>>
    /\ DictGet(walks[1].az.definitions, "f").used_names = {"A"}
    /\ DictGet(walks[2].az.definitions, "f").used_names = {"B"}

====
